---- MODULE Spec2Model ----
(***************************************************************************)
(* Request pipeline of @ojson/http: compose(base, wrappers...) builds a    *)
(* client, client.bind(ctx) a bound client whose request is a chain of     *)
(* wrapper closures around the executor.  Modelled here: withRetry         *)
(* (src/src/with-retry), withTimeout (src/unnamed/part_005,                *)
(* src/src/with-timeout/utils.ts) and compose.                             *)
(*                                                                         *)
(* Time is in milliseconds.  Budget tokens are counted in tenths of a      *)
(* token (the source's defaults are 10 / 0.1 / 1 tokens), so every token   *)
(* quantity of the source is multiplied by 10.                             *)
(* An optional value (T | undefined) is the set {} or {v}.                 *)
(* One action is one run of the code between two suspension points (the    *)
(* executor's network call, the retry delay timer).                        *)
(***************************************************************************)
EXTENDS Integers, Sequences, FiniteSets, TLC

VARIABLES now, stack, policy, topts, clients, budgets, bounds, reqs, merges

vars == <<now, stack, policy, topts, clients, budgets, bounds, reqs, merges>>

-----------------------------------------------------------------------------
(* Bounds of the model *)

MaxReq == 2
MaxNow == 1500

TickSteps == {500}

\* The clients made by the compose factory, and the client of each successive
\* bind call
ClientIds == {1, 2}
BindPlan == <<1, 1, 2>>

-----------------------------------------------------------------------------
(* Optional values *)

None == {}
Some(x) == {x}
IsSome(o) == o # {}
Val(o) == CHOOSE x \in o : TRUE
OrElse(o, d) == IF o # {} THEN o ELSE d

Min(a, b) == IF a < b THEN a ELSE b
Max(a, b) == IF a > b THEN a ELSE b

-----------------------------------------------------------------------------
(* Errors.  id identifies the error object: the request it was raised for, *)
(* the sequence number of the executor call (or 0) and where it was made.  *)

NoErr == [kind |-> "none", status |-> None, retryAfter |-> None,
          req |-> 0, seq |-> 0, origin |-> "none"]

RequestError(status, retryAfter, r, n) ==
    [kind |-> "RequestError", status |-> status, retryAfter |-> retryAfter,
     req |-> r, seq |-> n, origin |-> "inner"]

AbortErrorAt(r, n, origin) ==
    [kind |-> "AbortError", status |-> None, retryAfter |-> None,
     req |-> r, seq |-> n, origin |-> origin]

OtherErrorAt(r, n, origin) ==
    [kind |-> "Error", status |-> None, retryAfter |-> None,
     req |-> r, seq |-> n, origin |-> origin]

isAbortError(error) == error.kind = "AbortError"

\* The Retry-After header of a response (the retryAfter of a RequestError):
\* the decimal text of the integer n ("seconds"), an HTTP-date at n epoch ms
\* ("date"), or another text ("text")
RetryAfter(kind, n) == [kind |-> kind, n |-> n]
Seconds(n) == RetryAfter("seconds", n)
HttpDate(ms) == RetryAfter("date", ms)
NotADelay == RetryAfter("text", 0)

-----------------------------------------------------------------------------
(* with-retry/utils.ts *)

DEFAULT_BACKOFF == [strategy |-> "exp", baseDelay |-> 1, maxDelay |-> 30, factor |-> 2]

\* tenths of a token
DEFAULT_BUDGET == [maxTokens |-> 100, refillOnSuccess |-> 1, costPerRetry |-> 10]

IdempotentMethods == {"GET", "HEAD", "PUT", "DELETE", "OPTIONS", "TRACE"}

\* Faulty variant: every method counts as idempotent
anyMethodIdempotent(method) == TRUE

isIdempotentMethod(method) == method \in IdempotentMethods

RECURSIVE Pow(_, _)
Pow(b, e) == IF e = 0 THEN 1 ELSE b * Pow(b, e - 1)

\* count delays; backoff: record of optional overrides of DEFAULT_BACKOFF
buildBackoffScheduleSeconds(count, backoff) ==
    LET base == Val(OrElse(backoff.baseDelay, Some(DEFAULT_BACKOFF.baseDelay)))
        max == Val(OrElse(backoff.maxDelay, Some(DEFAULT_BACKOFF.maxDelay)))
        factor == Val(OrElse(backoff.factor, Some(DEFAULT_BACKOFF.factor)))
        strategy == Val(OrElse(backoff.strategy, Some(DEFAULT_BACKOFF.strategy)))
    IN [idx \in 1..count |->
          Min(IF strategy = "linear" THEN base * idx ELSE base * Pow(factor, idx - 1), max)]

NoBackoff == [strategy |-> None, baseDelay |-> None, maxDelay |-> None, factor |-> None]

\* A retries value: undefined, number[], number, or a shorthand string
\* (given by its comma-separated parts; "bad" is a string that does not parse).
RetriesUndefined == [kind |-> "undefined", delays |-> <<>>, count |-> 0, strategy |-> "exp", base |-> 0]
RetriesArray(delays) == [kind |-> "array", delays |-> delays, count |-> 0, strategy |-> "exp", base |-> 0]
RetriesCount(n) == [kind |-> "number", delays |-> <<>>, count |-> n, strategy |-> "exp", base |-> 0]
RetriesShorthand(s, b, n) == [kind |-> "shorthand", delays |-> <<>>, count |-> n, strategy |-> s, base |-> b]
RetriesBadShorthand == [kind |-> "badshorthand", delays |-> <<>>, count |-> 0, strategy |-> "exp", base |-> 0]

\* A shorthand string is given by its parts (split at the commas, trimmed,
\* empty parts dropped); a part by its text and by the number parseFloat and
\* parseInt read from it (None: NaN).
Part(text, number) == [text |-> text, number |-> number]

\* parseRetriesShorthand(value): None when the string is rejected
parseRetriesShorthand(parts) ==
    IF Len(parts) # 3 THEN None
    ELSE IF parts[1].text \notin {"exp", "linear"} THEN None
    ELSE IF parts[2].number = None \/ Val(parts[2].number) < 0 THEN None
    ELSE IF parts[3].number = None \/ Val(parts[3].number) < 0 THEN None
    ELSE Some([strategy |-> parts[1].text, baseDelay |-> Val(parts[2].number),
               retries |-> Val(parts[3].number)])

\* The retries value that is the string with these parts
RetriesString(parts) ==
    LET made(parsed) ==
            IF parsed = None THEN RetriesBadShorthand
            ELSE RetriesShorthand(Val(parsed).strategy, Val(parsed).baseDelay, Val(parsed).retries)
    IN made(parseRetriesShorthand(parts))

\* Faulty variant: the policy's retries come first
resolvePolicyFirst(pol, requestRetries) ==
    LET retries == IF pol.retries.kind # "undefined" THEN pol.retries ELSE requestRetries
    IN CASE retries.kind = "array" -> [ok |-> TRUE, schedule |-> retries.delays]
         [] retries.kind = "number" ->
              [ok |-> TRUE,
               schedule |-> buildBackoffScheduleSeconds(Max(0, retries.count), pol.backoff)]
         [] OTHER -> [ok |-> TRUE, schedule |-> <<>>]

\* `requestRetries ?? policy.retries`, then `if (!retries) return []`:
\* undefined and the number 0 are falsy; an empty array is truthy and sliced.
\* Result: [ok |-> FALSE] when the shorthand does not parse (the code throws).
resolveRetriesScheduleSeconds(pol, requestRetries) ==
    LET retries == IF requestRetries.kind # "undefined" THEN requestRetries ELSE pol.retries
    IN CASE retries.kind = "undefined" -> [ok |-> TRUE, schedule |-> <<>>]
         [] retries.kind = "array" -> [ok |-> TRUE, schedule |-> retries.delays]
         [] retries.kind = "number" ->
              [ok |-> TRUE,
               schedule |-> buildBackoffScheduleSeconds(Max(0, retries.count), pol.backoff)]
         [] retries.kind = "shorthand" ->
              [ok |-> TRUE,
               schedule |-> buildBackoffScheduleSeconds(retries.count,
                    [pol.backoff EXCEPT !.strategy = Some(retries.strategy),
                                        !.baseDelay = Some(retries.base)])]
         [] OTHER -> [ok |-> FALSE, schedule |-> <<>>]

\* Math.random() is one of these quarters of the interval [min, max)
RandomQuarters == {0, 3}

\* The delay in ms applyJitterSeconds returns for delaySeconds when
\* Math.random() gives the quarter `random`; jitter is None (the default ratio
\* 0.2) or a ratio in percent.
DEFAULT_JITTER_PCT == 20

applyJitterMs(delaySeconds, jitter, random) ==
    IF delaySeconds <= 0 THEN 0
    ELSE LET ratio == IF jitter = None THEN DEFAULT_JITTER_PCT ELSE Val(jitter)
         IN IF ratio <= 0 THEN delaySeconds * 1000
            ELSE LET clamped == Min(Max(ratio, 0), 100)
                     delta == delaySeconds * 10 * clamped
                     min == Max(0, delaySeconds * 1000 - delta)
                     max == delaySeconds * 1000 + delta
                 IN min + (random * (max - min)) \div 4

\* A jitter function of the policy: "double" returns twice the delay,
\* "negative" a negative number, "throws" throws.  Result: whether it
\* returned, and the number.
jitterFunction(fn, delaySeconds, attempt) ==
    CASE fn = "double" -> [ok |-> TRUE, next |-> 2 * delaySeconds]
      [] fn = "negative" -> [ok |-> TRUE, next |-> 0 - attempt]
      [] OTHER -> [ok |-> FALSE, next |-> 0]

\* applyJitterSeconds(delaySeconds, attempt, jitter) followed by
\* Math.round(delaySeconds * 1000): the delay in ms, or ok = FALSE when the
\* jitter function throws.  jitterFn is "none" when policy.jitter is not a
\* function.
applyJitterSeconds(delaySeconds, attempt, jitter, jitterFn, random) ==
    LET called(res) ==
            IF ~res.ok THEN [ok |-> FALSE, ms |-> 0]
            ELSE IF res.next < 0 THEN [ok |-> TRUE, ms |-> delaySeconds * 1000]
            ELSE [ok |-> TRUE, ms |-> res.next * 1000]
    IN IF delaySeconds <= 0 THEN [ok |-> TRUE, ms |-> 0]
       ELSE IF jitterFn # "none" THEN called(jitterFunction(jitterFn, delaySeconds, attempt))
       ELSE [ok |-> TRUE, ms |-> applyJitterMs(delaySeconds, jitter, random)]

\* parseRetryAfterSeconds(error.response?.headers) at time t: undefined
\* (None) without the header and for a text that is neither an integer nor a
\* date; Math.max(0, seconds) for the integer parseInt reads; for a date
\* Math.max(0, (dateMs - Date.now()) / 1000), the dates met here being whole
\* seconds away or past
parseRetryAfterSeconds(error, t) ==
    IF error.retryAfter = None THEN None
    ELSE LET value == Val(error.retryAfter)
         IN CASE value.kind = "seconds" -> Some(Max(0, value.n))
              [] value.kind = "date" -> Some(Max(0, (value.n - t) \div 1000))
              [] OTHER -> None

\* parseBudget + the merge with DEFAULT_BUDGET of ensureBudget
NoBudgetConfig == [off |-> TRUE, maxTokens |-> None, refillOnSuccess |-> None, costPerRetry |-> None]
BudgetConfig(m, f, c) == [off |-> FALSE, maxTokens |-> m, refillOnSuccess |-> f, costPerRetry |-> c]

parseBudget(budget) == IF budget.off THEN None ELSE Some(budget)

-----------------------------------------------------------------------------
(* with-retry/with-retry.ts: policy and budget *)

\* WithRetryOptions.  shouldRetry: "default" (none supplied) or "custom".
\* jitter: undefined or a ratio in percent, with jitterFn "none"; or a function
\* (jitterFn, see jitterFunction).
RetryPolicy(retries, jitter, budget, shouldRetry, allowNonIdempotent) ==
    [retries |-> retries, backoff |-> NoBackoff, jitter |-> jitter, jitterFn |-> "none",
     budget |-> budget, shouldRetry |-> shouldRetry, allowNonIdempotent |-> allowNonIdempotent]

JitterPolicy(retries, jitterFn, budget) ==
    [RetryPolicy(retries, None, budget, "default", None) EXCEPT !.jitterFn = jitterFn]

\* `this[__WithRetry__] ?? {}`
EmptyPolicy == RetryPolicy(RetriesUndefined, None, NoBudgetConfig, "default", None)

\* A BudgetState of the heap: tokens and the resolved config (and, as
\* history, the number of retries it granted)
NewBudgetState(parsed) ==
    LET resolved == [maxTokens |-> Val(OrElse(parsed.maxTokens, Some(DEFAULT_BUDGET.maxTokens))),
                     refillOnSuccess |-> Val(OrElse(parsed.refillOnSuccess, Some(DEFAULT_BUDGET.refillOnSuccess))),
                     costPerRetry |-> Val(OrElse(parsed.costPerRetry, Some(DEFAULT_BUDGET.costPerRetry)))]
    IN [tokens |-> resolved.maxTokens, config |-> resolved, granted |-> 0]

\* Faulty variant: a budget state per bind, never the one stored on the client
ensureBudgetPerBind(client, heap) ==
    LET parsed == IF client.retry = None THEN None ELSE parseBudget(Val(client.retry).budget)
    IN IF parsed = None
       THEN [ref |-> 0, heap |-> heap, field |-> client.budget]
       ELSE [ref |-> Len(heap) + 1,
             heap |-> Append(heap, NewBudgetState(Val(parsed))),
             field |-> Len(heap) + 1]

\* ensureBudget(client) on heap `heap`: the state's reference (0: undefined),
\* the heap and the client's __WithRetryBudget__ field afterwards.
ensureBudget(client, heap) ==
    LET parsed == IF client.retry = None THEN None ELSE parseBudget(Val(client.retry).budget)
    IN IF parsed = None
       THEN [ref |-> 0, heap |-> heap, field |-> client.budget]
       ELSE IF client.budget # 0
            THEN [ref |-> client.budget, heap |-> heap, field |-> client.budget]
            ELSE [ref |-> Len(heap) + 1,
                  heap |-> Append(heap, NewBudgetState(Val(parsed))),
                  field |-> Len(heap) + 1]

\* Faulty variant: the refill without the cap at maxTokens
refillUncapped(ref, heap) ==
    IF ref = 0 THEN heap
    ELSE [heap EXCEPT ![ref].tokens = heap[ref].tokens + heap[ref].config.refillOnSuccess]

\* refillBudgetOnSuccess(budget): the heap afterwards
refillBudgetOnSuccess(ref, heap) ==
    IF ref = 0 THEN heap
    ELSE [heap EXCEPT ![ref].tokens =
              Min(heap[ref].config.maxTokens, heap[ref].tokens + heap[ref].config.refillOnSuccess)]

\* Faulty variant: the cost is taken without the check `tokens < costPerRetry`
consumeUnchecked(ref, heap) ==
    IF ref = 0 THEN [granted |-> TRUE, heap |-> heap]
    ELSE [granted |-> TRUE,
          heap |-> [heap EXCEPT ![ref].tokens = heap[ref].tokens - heap[ref].config.costPerRetry,
                                ![ref].granted = @ + 1]]

\* consumeBudgetForRetry(budget): whether the retry is granted, and the heap afterwards
consumeBudgetForRetry(ref, heap) ==
    IF ref = 0 THEN [granted |-> TRUE, heap |-> heap]
    ELSE IF heap[ref].tokens < heap[ref].config.costPerRetry
         THEN [granted |-> FALSE, heap |-> heap]
         ELSE [granted |-> TRUE,
               heap |-> [heap EXCEPT ![ref].tokens = heap[ref].tokens - heap[ref].config.costPerRetry,
                                     ![ref].granted = @ + 1]]

\* Faulty variant: the default rule without 429 and network errors
defaultShouldRetryServerErrors(error) == error.status # None /\ Val(error.status) >= 500

\* The default rule of shouldRetryError (no custom predicate)
defaultShouldRetry(error) ==
    \/ error.status = None
    \/ Val(error.status) = 429
    \/ Val(error.status) >= 500

\* Faulty variant: Retry-After is honoured whatever the status
baseDelaySecondsAnyStatus(error, attempt, scheduleSeconds, t) ==
    LET retryAfterSeconds == parseRetryAfterSeconds(error, t)
    IN IF retryAfterSeconds # None THEN Val(retryAfterSeconds)
       ELSE IF attempt < Len(scheduleSeconds) THEN scheduleSeconds[attempt + 1]
       ELSE 0

\* The base delay in seconds computeRetryDelayMs uses for 0-based `attempt`
\* (the code reads the schedule below its length only; 0 stands for a read
\* past its end)
baseDelaySeconds(error, attempt, scheduleSeconds, t) ==
    LET retryAfterSeconds ==
            IF error.status # None /\ Val(error.status) \in {429, 503}
            THEN parseRetryAfterSeconds(error, t) ELSE None
    IN IF retryAfterSeconds # None THEN Val(retryAfterSeconds)
       ELSE IF attempt < Len(scheduleSeconds) THEN scheduleSeconds[attempt + 1]
       ELSE 0

-----------------------------------------------------------------------------
(* Headers and request options *)

\* The header names that occur, and String.prototype.toLowerCase on them
HeaderNames == {"X-Timeout-Ms", "x-timeout-ms", "authorization", "Set-Cookie", "set-cookie"}

toLowerCase(key) ==
    CASE key = "X-Timeout-Ms" -> "x-timeout-ms"
      [] key = "Set-Cookie" -> "set-cookie"
      [] OTHER -> key

\* Object.keys and Object.entries list the keys of a headers object in the
\* order of their insertion; the objects here got their keys in this order
HeaderKeyOrder == <<"X-Timeout-Ms", "x-timeout-ms", "authorization", "Set-Cookie", "set-cookie">>

\* HeaderValue: a string or an array of strings
Single(value) == [array |-> FALSE, values |-> <<value>>]
Multi(values) == [array |-> TRUE, values |-> values]

\* A headers object: for every name the value, if the key is present
NoHeaders == [k \in HeaderNames |-> None]
Header(name, value) == [k \in HeaderNames |-> IF k = name THEN Some(Single(value)) ELSE None]

\* appendHeaderValue(acc, key, value): acc[key] afterwards, `existing` being
\* acc[key] before
appendHeaderValue(existing, value) ==
    IF existing = None THEN Some(value)
    ELSE Some(Multi(Val(existing).values \o value.values))

\* The reduce of normalizeHeaders over the keys from the i-th on
RECURSIVE normalizeKeys(_, _, _)
normalizeKeys(headers, i, acc) ==
    IF i > Len(HeaderKeyOrder) THEN acc
    ELSE LET key == HeaderKeyOrder[i]
         IN normalizeKeys(headers, i + 1,
                IF headers[key] = None THEN acc
                ELSE [acc EXCEPT ![toLowerCase(key)] = appendHeaderValue(@, Val(headers[key]))])

\* Faulty variant: the keys are kept as they are spelled
normalizeHeadersKeepingCase(headers) == IF headers = None THEN NoHeaders ELSE Val(headers)

\* normalizeHeaders(headers) for a headers object or undefined (None): the
\* keys in lower case, the values of keys that differ in case only joined
\* into an array
normalizeHeaders(headers) ==
    IF headers = None THEN NoHeaders ELSE normalizeKeys(Val(headers), 1, NoHeaders)

\* hasHeader(headers, name)
hasHeader(headers, name) == normalizeHeaders(headers)[toLowerCase(name)] # None

\* Faulty variant: the last value wins for every key
mergeHeadersLastWins(base, next) ==
    [k \in HeaderNames |-> IF next[k] # None THEN next[k] ELSE base[k]]

\* Faulty variant: a value of base is kept when next has one too
mergeHeadersFirstWins(base, next) ==
    [k \in HeaderNames |-> IF base[k] # None THEN base[k] ELSE next[k]]

\* mergeHeaders(base, next) for two headers objects: the value of next
\* replaces that of base, but for set-cookie and for arrays it is appended
mergeHeaders(base, next) ==
    [k \in HeaderNames |->
        IF next[k] = None THEN base[k]
        ELSE IF \/ k = "set-cookie"
                \/ base[k] # None /\ Val(base[k]).array
                \/ Val(next[k]).array
        THEN appendHeaderValue(base[k], Val(next[k]))
        ELSE next[k]]

\* RequestOptions: timeout (ms), retries, headers (a headers object or None)
\* and query (a plain object with the keys a and b, or None).  `undefined`
\* lists the keys that are present with the value undefined: "timeout",
\* "headers", "query", a header name (key of headers), "query.a", "query.b".
RequestOptions(timeout, retries, headers) ==
    [timeout |-> timeout, retries |-> retries, headers |-> headers, query |-> None,
     undefined |-> {}]

NoOptions == RequestOptions(None, RetriesUndefined, None)

Query(a, b) == [a |-> a, b |-> b]

\* removeUndefined(value) for an options object: the keys with the value
\* undefined are dropped, at the top level and in the nested plain objects
removeUndefined(options) == [options EXCEPT !.undefined = {}]

\* normalizeRequestOptions(options), options being None when undefined
normalizeRequestOptions(options) ==
    IF options = None THEN NoOptions ELSE removeUndefined(Val(options))

\* mergeDeep(base, next) for two options objects.  A key of next with the
\* value undefined is skipped; headers and query are plain objects and merged
\* key by key when base has them too, else taken from next as they are;
\* retries (an array or a number) is taken from next when present.
mergeDeep(base, next) ==
    LET nested(b, n, merge(_, _)) ==
            IF n = None THEN b ELSE IF b = None THEN n ELSE Some(merge(Val(b), Val(n)))
        headers(b, n) == [k \in HeaderNames |-> IF n[k] # None THEN n[k] ELSE b[k]]
        query(b, n) == Query(OrElse(n.a, b.a), OrElse(n.b, b.b))
        top == {"timeout", "headers", "query"}
        has(o, key) ==
            CASE key = "timeout" -> o.timeout # None
              [] key = "headers" -> o.headers # None
              [] key = "query" -> o.query # None
              [] key \in HeaderNames -> o.headers # None /\ Val(o.headers)[key] # None
              [] key = "query.a" -> o.query # None /\ Val(o.query).a # None
              [] OTHER -> o.query # None /\ Val(o.query).b # None
        parent(key) == IF key \in HeaderNames THEN "headers" ELSE "query"
    IN [timeout |-> OrElse(next.timeout, base.timeout),
        retries |-> IF next.retries.kind # "undefined" THEN next.retries ELSE base.retries,
        headers |-> nested(base.headers, next.headers, headers),
        query |-> nested(base.query, next.query, query),
        undefined |-> {key \in base.undefined : ~has(next, key)}
                      \cup {key \in next.undefined \ top : ~has(base, parent(key))}]

\* Faulty variant: the spread {...base, ...next} with merged headers
mergeRequestOptionsSpread(base, next) ==
    LET n == IF next = None THEN NoOptions ELSE Val(next)
        set(key, value) == value # None \/ key \in n.undefined
    IN [timeout |-> IF set("timeout", n.timeout) THEN n.timeout ELSE base.timeout,
        retries |-> IF n.retries.kind # "undefined" THEN n.retries ELSE base.retries,
        headers |-> Some(mergeHeaders(normalizeHeaders(base.headers), normalizeHeaders(n.headers))),
        query |-> IF set("query", n.query) THEN n.query ELSE base.query,
        undefined |-> {}]

\* mergeRequestOptions(base, next), next being None when undefined
mergeRequestOptions(base, next) ==
    LET merged(normalizedNext) ==
            [mergeDeep(base, normalizedNext) EXCEPT
                !.headers = Some(mergeHeaders(normalizeHeaders(base.headers),
                                              normalizeHeaders(normalizedNext.headers)))]
    IN merged(normalizeRequestOptions(next))

\* An options object on the heap: whether it is a plain object (its prototype
\* is Object.prototype; a class instance or an Object.create(null) object is
\* not), its keys and values, and the identity of its headers map (0: none)
Object(plain, value, headersRef) == [plain |-> plain, value |-> value, headersRef |-> headersRef]

isPlainObject(object) == object.plain

\* mergeRequestOptions(base, next) on a heap of objects (a sequence; base and
\* next are positions, next = 0 for undefined): the heap afterwards and the
\* position of the object returned.  removeUndefined copies a plain object and
\* returns any other object itself; mergeDeep builds a new object from two
\* plain objects and returns next itself otherwise; `merged.headers = ...`
\* then assigns a new headers map to the object mergeDeep returned.
mergeRequestOptionsOn(heap, base, next) ==
    LET copied == next = 0 \/ isPlainObject(heap[next])
        h1 == IF next = 0 THEN Append(heap, Object(TRUE, NoOptions, 0))
              ELSE IF isPlainObject(heap[next])
              THEN Append(heap, Object(TRUE, removeUndefined(heap[next].value),
                                       IF heap[next].value.headers = None THEN 0 ELSE Len(heap) + 1))
              ELSE heap
        normalizedNext == IF copied THEN Len(h1) ELSE next
        built == isPlainObject(h1[base]) /\ isPlainObject(h1[normalizedNext])
        h2 == IF built
              THEN Append(h1, Object(TRUE, mergeDeep(h1[base].value, h1[normalizedNext].value),
                                     IF h1[normalizedNext].value.headers = None THEN h1[base].headersRef
                                     ELSE IF h1[base].value.headers = None THEN h1[normalizedNext].headersRef
                                     ELSE Len(h1) + 1))
              ELSE h1
        merged == IF built THEN Len(h2) ELSE normalizedNext
        headers == mergeHeaders(normalizeHeaders(h2[base].value.headers),
                                normalizeHeaders(h2[normalizedNext].value.headers))
    IN [heap |-> [h2 EXCEPT ![merged].value.headers = Some(headers),
                            ![merged].headersRef = Len(h2) + 2],
        result |-> merged]

\* The options {timeout, headers} a wrapper merges into the request's
Adjust(timeout, headers) == Some(RequestOptions(timeout, RetriesUndefined, headers))

\* HttpConfig of bind(ctx, config) and of http(options).config: a timeout and
\* headers (a headers object or None); None is an absent config
ConfigWith(timeout, headers) == [timeout |-> timeout, headers |-> headers, retries |-> RetriesUndefined]
\* An HttpConfig that sets retries only
ConfigRetries(retries) == [timeout |-> None, headers |-> None, retries |-> retries]
HttpConfig(timeout) == ConfigWith(timeout, None)
NoConfig == None

\* mergeConfig(base, next): the object returned has the keys headers and timeout
mergeConfig(base, next) ==
    IF base = None /\ next = None THEN None
    ELSE Some(ConfigWith(OrElse(IF next = None THEN None ELSE Val(next).timeout,
                                IF base = None THEN None ELSE Val(base).timeout),
                         Some(mergeHeaders(
                             normalizeHeaders(IF base = None THEN None ELSE Val(base).headers),
                             normalizeHeaders(IF next = None THEN None ELSE Val(next).headers)))))

\* Faulty variant: the config takes precedence over the options of the call
applyConfigToOptionsConfigFirst(options, config) ==
    IF config = None THEN options
    ELSE [options EXCEPT !.timeout = OrElse(Val(config).timeout, options.timeout),
                         !.headers = Some(mergeHeaders(normalizeHeaders(options.headers),
                                                       normalizeHeaders(Val(config).headers)))]

\* applyConfigToOptions(options, config): the options with headers and timeout
\* replaced
applyConfigToOptions(options, config) ==
    IF config = None THEN options
    ELSE [options EXCEPT !.timeout = OrElse(options.timeout, Val(config).timeout),
                         !.headers = Some(mergeHeaders(normalizeHeaders(Val(config).headers),
                                                       normalizeHeaders(options.headers)))]

\* buildOptions(input, config, options) of the base bound client
buildOptions(config, options) ==
    applyConfigToOptions(normalizeRequestOptions(Some(options)), config)

-----------------------------------------------------------------------------
(* with-timeout *)

DEFAULT_WITH_TIMEOUT_OPTIONS == [propagateDeadline |-> TRUE, minTimeout |-> 1]

\* WithTimeoutOptions.  propagateDeadline: "absent", "undefined" (key present,
\* value undefined), "true", "false".  getDeadline: "unset", "number" (returns
\* value), "undefined" (returns undefined), "throws".  deadlineHeader: "unset",
\* "config" (name, mode, respectExisting) or "malformed" (a shorthand string
\* parseDeadlineHeader rejects).
TimeoutOptions(defaultTimeout, propagateDeadline, minTimeout, getDeadline, deadlineHeader) ==
    [defaultTimeout |-> defaultTimeout, propagateDeadline |-> propagateDeadline,
     minTimeout |-> minTimeout, getDeadline |-> getDeadline, deadlineHeader |-> deadlineHeader]

GetDeadlineUnset == [kind |-> "unset", value |-> 0]
GetDeadlineNumber(v) == [kind |-> "number", value |-> v]
GetDeadlineUndefined == [kind |-> "undefined", value |-> 0]
GetDeadlineThrows == [kind |-> "throws", value |-> 0]

DeadlineHeaderName == "X-Timeout-Ms"

HeaderUnset == [kind |-> "unset", name |-> DeadlineHeaderName, mode |-> None, respectExisting |-> None]
HeaderConfig(mode, respectExisting) ==
    [kind |-> "config", name |-> DeadlineHeaderName, mode |-> mode, respectExisting |-> respectExisting]
HeaderMalformed == [kind |-> "malformed", name |-> DeadlineHeaderName, mode |-> None, respectExisting |-> None]

\* asOptions(undefined)
EmptyTimeoutOptions == TimeoutOptions(None, "absent", None, GetDeadlineUnset, HeaderUnset)

\* Faulty variant: no floor
clampMinOff(value, min) == value

clampMin(value, min) == IF value < min THEN min ELSE value

\* Faulty variant: a resolver and a ctx.deadline that are never read
getDeadlineIgnored(ctx, options) == [ok |-> TRUE, deadlineMs |-> None]

\* getDeadlineMs(ctx, options); ok = FALSE when the resolver throws
getDeadlineMs(ctx, options) ==
    CASE options.getDeadline.kind = "throws" -> [ok |-> FALSE, deadlineMs |-> None]
      [] options.getDeadline.kind = "number" -> [ok |-> TRUE, deadlineMs |-> Some(options.getDeadline.value)]
      [] OTHER -> [ok |-> TRUE, deadlineMs |-> ctx.deadline]

\* computeTimeoutMs(ctx, requestOptions, options) at time t.
\* `resolved.propagateDeadline ?? DEFAULT`: only an explicit false disables.
computeTimeoutMs(ctx, requestOptions, options, t) ==
    LET minTimeout == Val(OrElse(options.minTimeout, Some(DEFAULT_WITH_TIMEOUT_OPTIONS.minTimeout)))
        propagateDeadline == options.propagateDeadline # "false"
        baseTimeout == OrElse(requestOptions.timeout, options.defaultTimeout)
        dl == getDeadlineMs(ctx, options)
    IN IF ~propagateDeadline
       THEN [ok |-> TRUE, timeout |-> baseTimeout, remainingMs |-> None, deadlineMs |-> None]
       ELSE IF ~dl.ok
       THEN [ok |-> FALSE, timeout |-> None, remainingMs |-> None, deadlineMs |-> None]
       ELSE IF dl.deadlineMs = None
       THEN [ok |-> TRUE, timeout |-> baseTimeout, remainingMs |-> None, deadlineMs |-> None]
       ELSE LET deadlineMs == Val(dl.deadlineMs)
                remainingMs == deadlineMs - t
                clampedRemaining == clampMin(remainingMs, minTimeout)
            IN IF remainingMs <= 0
               THEN [ok |-> TRUE, timeout |-> Some(0), remainingMs |-> Some(remainingMs),
                     deadlineMs |-> Some(deadlineMs)]
               ELSE [ok |-> TRUE,
                     timeout |-> IF baseTimeout = None THEN Some(clampedRemaining)
                                 ELSE Some(Min(Val(baseTimeout), clampedRemaining)),
                     remainingMs |-> Some(clampedRemaining),
                     deadlineMs |-> Some(deadlineMs)]

\* Faulty variant: the header always carries the absolute deadline
withDeadlineHeaderAbsolute(requestOptions, deadlineMs, remainingMs, config) ==
    IF Val(OrElse(config.respectExisting, Some(TRUE)))
       /\ hasHeader(requestOptions.headers, toLowerCase(config.name))
    THEN requestOptions
    ELSE mergeRequestOptions(requestOptions,
             Adjust(None, Some(Header(toLowerCase(config.name), ToString(deadlineMs)))))

\* Faulty variant: a header of the caller is overwritten
withDeadlineHeaderOverwriting(requestOptions, deadlineMs, remainingMs, config) ==
    mergeRequestOptions(requestOptions,
        Adjust(None, Some(Header(toLowerCase(config.name),
                                 IF config.mode = Some("absolute-ms") THEN ToString(deadlineMs)
                                 ELSE ToString(remainingMs)))))

\* withDeadlineHeader(requestOptions, deadlineMs, remainingMs, config): the
\* header carries String(deadlineMs) or String(remainingMs)
withDeadlineHeader(requestOptions, deadlineMs, remainingMs, config) ==
    LET name == toLowerCase(config.name)
        respectExisting == Val(OrElse(config.respectExisting, Some(TRUE)))
        mode == Val(OrElse(config.mode, Some("relative-ms")))
        value == IF mode = "absolute-ms" THEN ToString(deadlineMs) ELSE ToString(remainingMs)
    IN IF respectExisting /\ hasHeader(requestOptions.headers, name)
       THEN requestOptions
       ELSE mergeRequestOptions(requestOptions, Adjust(None, Some(Header(name, value))))

\* The body of withTimeout's wrapRequest up to the call of the inner request,
\* for request r at time t: either the options passed inward (kind "call") or
\* the error thrown (kind "throw").
\* `resolved.propagateDeadline &&`: the spread keeps an explicit undefined,
\* which is falsy here.
timeoutWrapRequest(ctx, requestOptions, options, t, r, n) ==
    LET propagate == options.propagateDeadline \in {"absent", "true"}
        minTimeout == Val(OrElse(options.minTimeout, Some(DEFAULT_WITH_TIMEOUT_OPTIONS.minTimeout)))
        threw(err) == [kind |-> "throw", err |-> err, opts |-> requestOptions]
        calls(next) == [kind |-> "call", err |-> NoErr, opts |-> next]
        merged(next, computed) ==
            IF options.deadlineHeader.kind = "malformed"
            THEN threw(OtherErrorAt(r, n, "deadlineHeader"))
            ELSE IF options.deadlineHeader.kind = "config" /\ computed.deadlineMs # None
            THEN calls(withDeadlineHeader(next, Val(computed.deadlineMs),
                           clampMin(Val(computed.deadlineMs) - t, minTimeout),
                           options.deadlineHeader))
            ELSE calls(next)
        after(computed) ==
            IF ~computed.ok
            THEN threw(OtherErrorAt(r, n, "getDeadline"))
            ELSE IF propagate /\ computed.deadlineMs # None /\ computed.remainingMs # None
                    /\ Val(computed.remainingMs) <= 0
            THEN threw(AbortErrorAt(r, n, "deadline"))
            ELSE merged(mergeRequestOptions(requestOptions, Adjust(computed.timeout, None)),
                        computed)
    IN after(computeTimeoutMs(ctx, requestOptions, options, t))

-----------------------------------------------------------------------------
(* compose and the wrappers' client objects *)

\* http(options): a client with a bind and no wrapper marker.  chain lists the
\* wrapBind closures installed around the base bind, innermost first (chain
\* and input together are the client's bind); the other fields are the markers
\* (None: key absent) and the budget field.
\* input is what the base bind closes over: whether a fetch implementation
\* exists, and options.config.
HttpOptions(fetch, config) == [fetch |-> fetch, config |-> config]

http(options) ==
    [chain |-> <<>>, input |-> options, retry |-> None, timeout |-> None, auth |-> None,
     logger |-> None, budget |-> 0]

\* Faulty variant: a wrapBind is installed at every application
installedAlways(client, marker, kind) == Append(client.chain, kind)

installed(client, marker, kind) ==
    IF marker # None THEN client.chain ELSE Append(client.chain, kind)

\* withRetry(policy)(client): a spread of client, plus bind and the marker
withRetry(pol, client) ==
    [client EXCEPT !.chain = installed(client, client.retry, "retry"),
                   !.retry = Some(pol)]

\* withTimeout(arg)(client): an object with bind and the marker only
withTimeout(options, client) ==
    [http(client.input) EXCEPT !.chain = installed(client, client.timeout, "timeout"),
                               !.timeout = Some(options)]

\* withAuth(strategy)(client): a spread of client, plus bind and the marker
withAuth(strategy, client) ==
    [client EXCEPT !.chain = installed(client, client.auth, "auth"),
                   !.auth = Some(strategy)]

\* withLogger(options)(client): a spread of client, plus bind and the marker
withLogger(options, client) ==
    [client EXCEPT !.chain = installed(client, client.logger, "logger"),
                   !.logger = Some(options)]

\* LoggerOptions: whether a logger is given (include and level at their
\* defaults: no request-start event, minimum level info)
LoggerOptions(logger) == [logger |-> logger]
NoLoggerOptions == LoggerOptions(FALSE)

\* The policy of "retry2"
SecondPolicy == RetryPolicy(RetriesArray(<<0, 1>>), Some(0), NoBudgetConfig, "default", None)

\* One wrapper of a compose call: "retry" and "retry2" are withRetry with the
\* first and the second policy, "auth" and "auth2" withAuth with the first and
\* the second strategy.
applyWrapper(wrapper, client, cfg) ==
    CASE wrapper = "retry" -> withRetry(cfg.policy, client)
      [] wrapper = "retry2" -> withRetry(cfg.policy2, client)
      [] wrapper = "timeout" -> withTimeout(cfg.topts, client)
      [] wrapper = "auth" -> withAuth(1, client)
      [] wrapper = "auth2" -> withAuth(2, client)
      [] OTHER -> withLogger(LoggerOptions(TRUE), client)

RECURSIVE applyWrappers(_, _, _, _)
applyWrappers(wrappers, i, client, cfg) ==
    IF i > Len(wrappers) THEN client
    ELSE applyWrappers(wrappers, i + 1, applyWrapper(wrappers[i], client, cfg), cfg)

\* The arguments of a compose call's wrappers and of the composed factory
Wrappers(pol, options, httpOptions) ==
    [policy |-> pol, policy2 |-> SecondPolicy, topts |-> options, http |-> httpOptions]

\* compose(base, ...wrappers)(options)
compose(wrappers, cfg) == applyWrappers(wrappers, 1, http(cfg.http), cfg)

\* What one wrapBind closure captures for the bound client's request
Layer(kind) ==
    [kind |-> kind, policy |-> EmptyPolicy, budget |-> 0, options |-> EmptyTimeoutOptions,
     strategy |-> None, logger |-> NoLoggerOptions]
RetryLayer(pol, ref) == [Layer("retry") EXCEPT !.policy = pol, !.budget = ref]
TimeoutLayer(options) == [Layer("timeout") EXCEPT !.options = options]
AuthLayer(strategy) == [Layer("auth") EXCEPT !.strategy = strategy]
LoggerLayer(options) == [Layer("logger") EXCEPT !.logger = options]

\* client.bind(ctx) with `this` = client: every wrapBind of the chain calls the
\* bind below it and then reads its marker from `this`.  Result: the layers
\* (innermost first), the heap and the client's budget field afterwards.
RECURSIVE bindChain(_, _, _, _)
bindChain(client, i, layers, heap) ==
    IF i > Len(client.chain) THEN [layers |-> layers, heap |-> heap, field |-> client.budget]
    ELSE CASE client.chain[i] = "retry" ->
                LET pol == IF client.retry = None THEN EmptyPolicy ELSE Val(client.retry)
                    b == ensureBudget(client, heap)
                IN bindChain([client EXCEPT !.budget = b.field], i + 1,
                             Append(layers, RetryLayer(pol, b.ref)), b.heap)
           [] client.chain[i] = "timeout" ->
                bindChain(client, i + 1,
                          Append(layers, TimeoutLayer(IF client.timeout = None
                                                      THEN EmptyTimeoutOptions
                                                      ELSE Val(client.timeout))), heap)
           [] client.chain[i] = "auth" ->
                bindChain(client, i + 1, Append(layers, AuthLayer(client.auth)), heap)
           [] OTHER ->
                bindChain(client, i + 1,
                          Append(layers, LoggerLayer(IF client.logger = None
                                                     THEN NoLoggerOptions
                                                     ELSE Val(client.logger))), heap)

-----------------------------------------------------------------------------
(* Requests *)

\* Record of the last withTimeout invocation of a request: when, with which
\* options, how it ended ("call": it called the inner request; else the kind of
\* the error thrown) and how many times it called the inner request.
NoTimeoutCall == [at |-> 0, given |-> NoOptions, kind |-> "none", inner |-> 0, passed |-> NoOptions]

\* What fetch did for a request: kind "response" (status, content-type,
\* Retry-After seconds, and how response.json() and response.text() settle:
\* "ok", "error" when they reject, "abort" when they reject with an
\* AbortError), or the kind of its rejection ("AbortError", "Error"); "none"
\* before fetch has settled.
Transport(kind, status, contentType, jsonRead, textRead, retryAfter) ==
    [kind |-> kind, status |-> status, contentType |-> contentType, jsonRead |-> jsonRead,
     textRead |-> textRead, retryAfter |-> retryAfter]

NoTransport == Transport("none", 0, None, "ok", "ok", None)

\* The loop variables of a retry layer's wrapRequest, and the options it was
\* called with
Frame(looping, schedule, attempt, options) ==
    [looping |-> looping, schedule |-> schedule, attempt |-> attempt, options |-> options]
NoFrame == Frame(FALSE, <<>>, 0, NoOptions)

\* A request.  looping, schedule, attempt and options are the frame of the
\* outermost retry layer (options: the caller's, when there is none), nested
\* the frame of a retry layer below it; sleepAt is the layer whose sleepMs is
\* pending; execTimer and sleepTimer tell whether the executor's timeout timer
\* and the timer of sleepMs are armed.
IdleRequest ==
    [pc |-> "new", bound |-> 0, method |-> "GET", options |-> NoOptions,
     hasSignal |-> FALSE, aborted |-> FALSE,
     looping |-> FALSE, schedule |-> <<>>, attempt |-> 0, wakeAt |-> 0,
     nested |-> NoFrame, sleepAt |-> 0, execTimer |-> FALSE, sleepTimer |-> FALSE,
     sent |-> NoOptions, settled |-> "pending", error |-> NoErr,
     \* history
     calls |-> 0, execCalls |-> 0, shouldRetryCalls |-> 0, grants |-> 0,
     lastInner |-> NoErr, failAt |-> 0, delayMs |-> 0, allRetryable |-> TRUE,
     tCalls |-> 0, tLast |-> NoTimeoutCall,
     authCalls |-> <<0, 0>>, authSent |-> TRUE, events |-> <<>>,
     fetched |-> NoTransport]

\* The history fields are kept for request 1, the observed request; the other
\* requests run the same code against the same clients and budgets.
forget(req) ==
    LET q == [req EXCEPT !.calls = 0, !.execCalls = 0, !.shouldRetryCalls = 0, !.grants = 0,
                         !.lastInner = NoErr, !.failAt = 0, !.delayMs = 0,
                         !.allRetryable = TRUE, !.tCalls = 0, !.tLast = NoTimeoutCall,
                         !.authCalls = <<0, 0>>, !.authSent = TRUE, !.events = <<>>,
                         !.fetched = NoTransport]
    IN IF q.pc = "done"
       THEN [q EXCEPT !.error = NoErr, !.settled = "resolved", !.schedule = <<>>,
                      !.looping = FALSE, !.options = NoOptions, !.method = "GET",
                      !.hasSignal = FALSE, !.aborted = FALSE, !.bound = 0,
                      !.execTimer = FALSE, !.sleepTimer = FALSE]
       ELSE q

observe(r, req) == IF r = 1 THEN req ELSE forget(req)

\* Index of the outermost retry layer of a bound client's layers, 0 if none
RECURSIVE retryIndex(_, _)
retryIndex(layers, i) ==
    IF i = 0 THEN 0
    ELSE IF layers[i].kind = "retry" THEN i ELSE retryIndex(layers, i - 1)

\* The frame of the retry layer at index i
isOutermostRetry(layers, i) == i = retryIndex(layers, Len(layers))

\* The layer whose calls of its inner request the history field `calls`
\* counts: the outermost retry layer, or the caller when there is none
observedCaller(layers) ==
    IF retryIndex(layers, Len(layers)) = 0 THEN Len(layers) + 1
    ELSE retryIndex(layers, Len(layers))

frameOf(req, layers, i) ==
    IF isOutermostRetry(layers, i)
    THEN Frame(req.looping, req.schedule, req.attempt, req.options)
    ELSE req.nested

setFrame(req, layers, i, f) ==
    IF isOutermostRetry(layers, i)
    THEN [req EXCEPT !.looping = f.looping, !.schedule = f.schedule, !.attempt = f.attempt,
                     !.options = f.options]
    ELSE [req EXCEPT !.nested = f]

\* The request settles
\* (the fields only a pending request uses are cleared)
Settled(req) == [req EXCEPT !.pc = "done", !.wakeAt = 0, !.sent = NoOptions, !.attempt = 0,
                              !.failAt = 0, !.delayMs = 0, !.nested = NoFrame, !.sleepAt = 0]
Resolved(req) == [Settled(req) EXCEPT !.settled = "resolved", !.error = NoErr]
Rejected(req, error) == [Settled(req) EXCEPT !.settled = "rejected", !.error = error]

\* A synchronous run of a request's code: the request and the budget heap
Run(req, heap) == [req |-> req, heap |-> heap]

\* How an awaited inner request settles
Success == [ok |-> TRUE, err |-> NoErr]
Failure(error) == [ok |-> FALSE, err |-> error]

\* What the environment picks during a run: the answer of a custom shouldRetry
\* and the value of Math.random
Choice(verdict, random) == [verdict |-> verdict, random |-> random]
NoChoice == Choice("yes", 0)

\* sleepMs(delayMs, signal): "resolve" at once, "reject" at once, or "wait"
\* for the timer or the abort listener.
sleepMs(delayMs, hasSignal, aborted) ==
    IF delayMs <= 0 THEN "resolve"
    ELSE IF hasSignal /\ aborted THEN "reject"
    ELSE "wait"

\* Faulty variant: a timer that fires without waiting for the delay
timerDueAtOnce(req, t) == TRUE

\* The timer of sleepMs fires no earlier than delayMs after it was armed
timerDue(req, t) == t >= req.wakeAt

\* Faulty variant: sleepMs without the abort listener
onAbortIgnored(req, r) == req

\* The abort listener sleepMs registers on the signal: it clears the timer and
\* the sleeping request's sleepMs rejects when the signal aborts.
onAbort(req, r) ==
    IF req.pc = "sleeping"
    THEN [req EXCEPT !.pc = "woken", !.sleepTimer = FALSE,
                     !.error = AbortErrorAt(r, req.execCalls, "sleepAbort")]
    ELSE req

\* Faulty variant: only errors that are neither RequestError nor AbortError
\* are rethrown at once
rethrownUnlessAbort(error) == error.kind \notin {"RequestError", "AbortError"}

\* Faulty variant: only cancellations are rethrown at once
rethrownAbortOnly(error) == isAbortError(error)

\* `if (isAbortError(error)) throw error` and `if (!(error instanceof
\* RequestError)) throw error`: the errors the catch block rethrows at once
rethrownAtOnce(error) == isAbortError(error) \/ error.kind # "RequestError"

\* Faulty variant: the bound check off by one
scheduleExhaustedLate(attempt, scheduleSeconds) == attempt > Len(scheduleSeconds)

\* `attempt >= scheduleSeconds.length` of computeRetryDelayMs
scheduleExhausted(attempt, scheduleSeconds) == attempt >= Len(scheduleSeconds)

\* Faulty variant: an aggregate error in place of the attempt's error
thrownAggregate(error, r, n) == OtherErrorAt(r, n, "aggregate")

\* `throw error` after computeRetryDelayMs returned null: the rejection value
thrownWhenNotRetried(error, r, n) == error

\* The token the auth strategy s returns in headers.authorization
authToken(s) == IF s = 1 THEN "Bearer first" ELSE "Bearer second"

\* defaultMapLevel(input) and shouldEmit(minLevel, level) of the logger
LEVEL_ORDER == [debug |-> 0, info |-> 1, warn |-> 2, error |-> 3]

defaultMapLevel(out) ==
    IF out.ok THEN "info"
    ELSE IF isAbortError(out.err) THEN "warn"
    ELSE IF out.err.kind = "RequestError" /\ out.err.status # None
         THEN IF Val(out.err.status) >= 500 THEN "error" ELSE "warn"
         ELSE "error"

shouldEmit(minLevel, level) == LEVEL_ORDER[level] >= LEVEL_ORDER[minLevel]

\* Faulty variant: a logger that reports responses only
logResponsesOnly(events, options, out) ==
    IF options.logger /\ out.ok
    THEN Append(events, [message |-> "http.response", level |-> "info"])
    ELSE events

\* logResponseSuccess / logError of a logger layer for the outcome `out` of its
\* inner request: the events emitted so far
logOutcome(events, options, out) ==
    IF options.logger /\ shouldEmit("info", defaultMapLevel(out))
    THEN Append(events, [message |-> IF out.ok THEN "http.response" ELSE "http.error",
                         level |-> defaultMapLevel(out)])
    ELSE events

\* In the operators below, `run` is the run so far, r the request, bnd its
\* bound client, t the time and ch the environment's choice.
\*   callInner:  layer i (the caller when i = Len + 1) calls
\*               `request.call(this, route, opts)`, the wrapRequest of layer
\*               i - 1 or the base requestBound
\*   settleInto: the request awaited by layer i (by the caller when
\*               i = Len + 1) settles with `out`
RECURSIVE callInner(_, _, _, _, _, _, _)
RECURSIVE settleInto(_, _, _, _, _, _, _)
RECURSIVE retryCatch(_, _, _, _, _, _, _)
RECURSIVE retryWrapRequest(_, _, _, _, _, _, _)
RECURSIVE wrapRequest(_, _, _, _, _, _, _)
RECURSIVE requestBound(_, _, _, _, _, _)

\* requestBound and request(route, options, input) of the executor up to the
\* call of fetch: the options are built, the timeout timer is armed, and
\* without a fetch implementation an Error is thrown
requestBound(run, r, bnd, opts, t, ch) ==
    LET options == buildOptions(bnd.config, opts)
        armed == options.timeout # None /\ Val(options.timeout) > 0
    IN IF ~bnd.fetch
       THEN settleInto([run EXCEPT !.req.execTimer = armed], r, bnd, 1,
                       Failure(OtherErrorAt(r, run.req.execCalls, "fetch")), t, ch)
       ELSE [run EXCEPT !.req = [@ EXCEPT !.pc = "inflight", !.sent = options,
                                          !.execCalls = @ + 1, !.execTimer = armed,
                                          !.authSent =
                                              @ /\ hasHeader(options.headers, "authorization")]]

callInner(run, r, bnd, i, opts, t, ch) ==
    LET counted == IF i = observedCaller(bnd.layers) THEN [run EXCEPT !.req.calls = @ + 1]
                   ELSE run
    IN IF i = 1 THEN requestBound(counted, r, bnd, opts, t, ch)
       ELSE wrapRequest(counted, r, bnd, i - 1, opts, t, ch)

\* The catch block of the retry loop of layer i for `error`.  ch.verdict: what
\* a custom shouldRetry returns ("yes", "no") or that it throws.
retryCatch(run, r, bnd, i, error, t, ch) ==
    LET layer == bnd.layers[i]
        pol == layer.policy
        f == frameOf(run.req, bnd.layers, i)
        custom == pol.shouldRetry = "custom"
        asked == [run EXCEPT !.req.shouldRetryCalls = @ + 1]
        q == IF custom THEN asked ELSE run
        throws(x, e) == settleInto(x, r, bnd, i + 1, Failure(e), t, ch)
        slept(g, delayMs, how) ==
            CASE how = "resolve" -> callInner(g, r, bnd, i, f.options, t, ch)
              [] how = "reject" -> throws(g, AbortErrorAt(r, run.req.execCalls, "sleepStart"))
              [] OTHER -> [g EXCEPT !.req = [@ EXCEPT !.pc = "sleeping", !.wakeAt = t + delayMs,
                                                      !.sleepAt = i, !.sleepTimer = TRUE]]
        sleeps(g, delayMs) ==
            slept([g EXCEPT !.req.delayMs = delayMs], delayMs,
                  sleepMs(delayMs, run.req.hasSignal, run.req.aborted))
        jittered(c, delay) ==
            IF ~delay.ok
            THEN throws([req |-> [q.req EXCEPT !.grants = @ + 1], heap |-> c.heap],
                        OtherErrorAt(r, run.req.execCalls, "jitter"))
            ELSE sleeps([req |-> setFrame([q.req EXCEPT !.grants = @ + 1], bnd.layers, i,
                                          [f EXCEPT !.attempt = @ + 1]),
                         heap |-> c.heap],
                        delay.ms)
        granted(c) ==
            IF ~c.granted THEN throws(q, thrownWhenNotRetried(error, r, run.req.execCalls))
            ELSE jittered(c, applyJitterSeconds(baseDelaySeconds(error, f.attempt, f.schedule, t),
                                                f.attempt + 1, pol.jitter, pol.jitterFn,
                                                ch.random))
    IN IF rethrownAtOnce(error) THEN throws(run, error)
       ELSE IF custom /\ ch.verdict = "throw"
       THEN throws(asked, OtherErrorAt(r, run.req.execCalls, "shouldRetry"))
       ELSE IF ~(IF custom THEN ch.verdict = "yes" ELSE defaultShouldRetry(error))
       THEN throws(q, thrownWhenNotRetried(error, r, run.req.execCalls))
       ELSE IF scheduleExhausted(f.attempt, f.schedule)
       THEN throws(q, thrownWhenNotRetried(error, r, run.req.execCalls))
       ELSE granted(consumeBudgetForRetry(layer.budget, run.heap))

\* The retry layer's wrapRequest, called with opts, up to its first suspension
retryWrapRequest(run, r, bnd, i, opts, t, ch) ==
    LET pol == bnd.layers[i].policy
        allowNonIdempotent == pol.allowNonIdempotent = Some(TRUE)
        delegate == ~allowNonIdempotent /\ ~isIdempotentMethod(run.req.method)
        entered(f) == [run EXCEPT !.req = setFrame(@, bnd.layers, i, f)]
        after(res) ==
            IF ~delegate /\ ~res.ok
            THEN settleInto(entered(Frame(FALSE, <<>>, 0, opts)), r, bnd, i + 1,
                            Failure(OtherErrorAt(r, 0, "retries")), t, ch)
            ELSE callInner(entered(IF delegate \/ Len(res.schedule) = 0
                                   THEN Frame(FALSE, <<>>, 0, opts)
                                   ELSE Frame(TRUE, res.schedule, 0, opts)),
                           r, bnd, i, opts, t, ch)
    IN after(resolveRetriesScheduleSeconds(pol, opts.retries))

\* The wrapRequest of layer i, called with opts, up to its first suspension
wrapRequest(run, r, bnd, i, opts, t, ch) ==
    LET layer == bnd.layers[i]
        logged(res) ==
            [run EXCEPT !.req.tCalls = @ + 1,
                        !.req.tLast = [at |-> t, given |-> opts,
                                       kind |-> IF res.kind = "call" THEN "call" ELSE res.err.kind,
                                       inner |-> IF res.kind = "call" THEN 1 ELSE 0,
                                       passed |-> res.opts]]
        timed(res) ==
            IF res.kind = "throw"
            THEN settleInto(logged(res), r, bnd, i + 1, Failure(res.err), t, ch)
            ELSE callInner(logged(res), r, bnd, i, res.opts, t, ch)
    IN CASE layer.kind = "retry" -> retryWrapRequest(run, r, bnd, i, opts, t, ch)
         [] layer.kind = "timeout" ->
              timed(timeoutWrapRequest(bnd.ctx, opts, layer.options, t, r, run.req.execCalls))
         [] layer.kind = "auth" ->
              IF layer.strategy = None
              THEN settleInto(run, r, bnd, i + 1,
                              Failure(OtherErrorAt(r, run.req.execCalls, "strategy")), t, ch)
              ELSE callInner([run EXCEPT !.req.authCalls[Val(layer.strategy)] = @ + 1],
                             r, bnd, i,
                             mergeRequestOptions(opts,
                                 Adjust(None, Some(Header("authorization",
                                                          authToken(Val(layer.strategy)))))),
                             t, ch)
         [] OTHER -> callInner(run, r, bnd, i, opts, t, ch)

settleInto(run, r, bnd, i, out, t, ch) ==
    IF i > Len(bnd.layers)
    THEN [run EXCEPT !.req = IF out.ok THEN Resolved(@) ELSE Rejected(@, out.err)]
    ELSE LET layer == bnd.layers[i]
         IN CASE layer.kind = "retry" ->
                   IF ~frameOf(run.req, bnd.layers, i).looping
                   THEN settleInto(run, r, bnd, i + 1, out, t, ch)
                   ELSE IF out.ok
                   THEN settleInto([run EXCEPT !.heap = refillBudgetOnSuccess(layer.budget, @)],
                                   r, bnd, i + 1, out, t, ch)
                   ELSE retryCatch(run, r, bnd, i, out.err, t, ch)
              [] layer.kind = "logger" ->
                   settleInto([run EXCEPT !.req.events = logOutcome(@, layer.logger, out)],
                              r, bnd, i + 1, out, t, ch)
              [] OTHER -> settleInto(run, r, bnd, i + 1, out, t, ch)

-----------------------------------------------------------------------------
(* client/request.ts: the executor after fetch has settled *)

\* shouldParseJson(contentType)
shouldParseJson(contentType) ==
    contentType # None /\ Val(contentType) \in {"application/json", "application/problem+json"}

\* parseResponseData(response, parseBody): "ok" when it resolves, else how it
\* rejects.  A rejection of response.json() is swallowed and response.text()
\* is read instead.
parseResponseData(response, parseBody) ==
    IF ~parseBody THEN "ok"
    ELSE IF response.status \in {204, 205} THEN "ok"
    ELSE IF shouldParseJson(response.contentType) /\ response.jsonRead = "ok" THEN "ok"
    ELSE response.textRead

\* Faulty variant: a catch block that wraps every error
requestCatchWrapsAll(error, r, n) ==
    IF error.kind = "RequestError" THEN error
    ELSE [RequestError(None, None, r, n) EXCEPT !.origin = "wrapped"]

\* The catch block of request: an AbortError and a RequestError are rethrown,
\* any other error is wrapped in a RequestError without status
requestCatch(error, r, n) ==
    IF isAbortError(error) THEN error
    ELSE IF error.kind = "RequestError" THEN error
    ELSE [RequestError(None, None, r, n) EXCEPT !.origin = "wrapped"]

\* The try block of request for what fetch did: how it ends
requestTry(fetched, parseBody, r, n) ==
    LET thrown(kind, origin) ==
            IF kind = "abort" \/ kind = "AbortError" THEN Failure(AbortErrorAt(r, n, origin))
            ELSE Failure(OtherErrorAt(r, n, origin))
        parsed(read) ==
            IF read # "ok" THEN thrown(read, "body")
            ELSE IF fetched.status >= 400
            THEN Failure(RequestError(Some(fetched.status), fetched.retryAfter, r, n))
            ELSE Success
    IN IF fetched.kind # "response" THEN thrown(fetched.kind, "transport")
       ELSE parsed(parseResponseData(fetched, parseBody))

\* How request settles once fetch has settled
requestSettles(fetched, parseBody, r, n) ==
    LET caught(out) == IF out.ok THEN out ELSE Failure(requestCatch(out.err, r, n))
    IN caught(requestTry(fetched, parseBody, r, n))

-----------------------------------------------------------------------------
(* Inputs *)

\* Outcomes of one executor call: a response, a RequestError (status,
\* Retry-After seconds), a cancellation, or another throw.
Outcome(kind, status, retryAfter) == [kind |-> kind, status |-> status, retryAfter |-> retryAfter]

Outcomes ==
    { Outcome("ok", None, None),
      Outcome("RequestError", None, None),
      Outcome("RequestError", Some(404), None),
      Outcome("RequestError", Some(503), None),
      Outcome("RequestError", Some(503), Some(Seconds(0))),
      Outcome("AbortError", None, None),
      Outcome("Error", None, None) }

errorOf(o, r, n) ==
    [kind |-> o.kind, status |-> o.status, retryAfter |-> o.retryAfter,
     req |-> r, seq |-> n, origin |-> "inner"]

\* route method, options, and whether options.signal is given
RequestInput(method, options, hasSignal) == [method |-> method, options |-> options, hasSignal |-> hasSignal]

RequestInputs ==
    { RequestInput("GET", NoOptions, TRUE),
      RequestInput("POST", NoOptions, FALSE),
      RequestInput("GET", RequestOptions(None, RetriesArray(<<>>), None), FALSE) }

\* The other requests are idempotent requests without options, answered by a
\* response, a retryable or a non-retryable failure
BackgroundInputs == { RequestInput("GET", NoOptions, FALSE) }

BackgroundOutcomes ==
    { Outcome("ok", None, None),
      Outcome("RequestError", Some(404), None),
      Outcome("RequestError", Some(503), None) }

hasLayer(wrappers, kind) == \E i \in 1..Len(wrappers) : wrappers[i] = kind

\* Requests made through a client with a withTimeout layer: with and without
\* options.timeout, and with the deadline header already set by the caller
TimeoutInputs ==
    { RequestInput("GET", NoOptions, TRUE),
      RequestInput("GET", RequestOptions(Some(200), RetriesUndefined, None), FALSE),
      RequestInput("GET", RequestOptions(None, RetriesUndefined, Some(Header("x-timeout-ms", "manual"))), FALSE) }

inputsFor(r) ==
    IF r # 1 THEN BackgroundInputs
    ELSE IF hasLayer(stack, "timeout") THEN TimeoutInputs
    ELSE RequestInputs

\* and are made through the first bound client
boundsFor(r) == IF r = 1 THEN 1..Len(bounds) ELSE 1..Min(1, Len(bounds))

outcomesFor(r) == IF r = 1 THEN Outcomes ELSE BackgroundOutcomes

Verdicts == {"yes", "no", "throw"}

\* Bind contexts: ctx.deadline (epoch ms), read by withTimeout only
Context(deadline) == [deadline |-> deadline]

DeadlineContexts == { Context(None), Context(Some(500)), Context(Some(1800)) }

\* The first bound client of a stack with withTimeout gets any of them
Contexts ==
    IF hasLayer(stack, "timeout") /\ Len(bounds) = 0 THEN DeadlineContexts ELSE { Context(None) }

\* withTimeout arguments: none; a default timeout without propagation; the
\* propagateDeadline key present with value undefined; a resolver that throws;
\* a malformed deadlineHeader shorthand; a resolver, a floor and a header
TimeoutOptionsSet ==
    { EmptyTimeoutOptions,
      TimeoutOptions(Some(300), "false", None, GetDeadlineUnset, HeaderUnset),
      TimeoutOptions(None, "undefined", None, GetDeadlineUnset, HeaderUnset),
      TimeoutOptions(None, "true", None, GetDeadlineThrows, HeaderUnset),
      TimeoutOptions(None, "absent", None, GetDeadlineUnset, HeaderMalformed),
      TimeoutOptions(Some(700), "true", Some(600), GetDeadlineNumber(1000),
                     HeaderConfig(Some("absolute-ms"), None)) }

RetryPolicies ==
    { RetryPolicy(RetriesArray(<<1>>), Some(0), NoBudgetConfig, "default", None),
      RetryPolicy(RetriesArray(<<0, 0>>), None, BudgetConfig(Some(10), Some(0), Some(10)), "default", None),
      RetryPolicy(RetriesArray(<<0, 1>>), Some(50), BudgetConfig(Some(20), Some(10), Some(10)), "custom", Some(TRUE)),
      RetryPolicy(RetriesCount(2), Some(0), BudgetConfig(Some(10), None, Some(0)), "default", Some(FALSE)) }

\* The operands of the merges of options objects (b and c also undefined:
\* None), and the results computed so far (None: not yet); heap holds the
\* objects a and b when the merge of a and b is followed object by object,
\* and result the position of the object that merge returned (0: not yet)
Merges(a, b, c) ==
    [a |-> a, b |-> b, c |-> c, empty |-> None, absent |-> None, ab |-> None, bc |-> None,
     left |-> None, right |-> None, heap |-> <<>>, result |-> 0]

NoMerge == Merges(NoOptions, None, None)

-----------------------------------------------------------------------------
(* Actions *)

TypeOK ==
    /\ now \in Nat
    /\ DOMAIN clients = ClientIds
    /\ Len(bounds) <= Len(BindPlan)
    /\ DOMAIN reqs = 1..MaxReq

\* client.bind(ctx, config): the base bind merges options.config and config
\* (`given` keeps the config argument of the call)
Bind(c, ctx, config) ==
    /\ Len(bounds) < Len(BindPlan)
    /\ c = BindPlan[Len(bounds) + 1]
    /\ LET b == bindChain(clients[c], 1, <<>>, budgets)
       IN /\ bounds' = Append(bounds, [client |-> c, ctx |-> ctx, given |-> config,
                                       config |-> mergeConfig(clients[c].input.config, config),
                                       fetch |-> clients[c].input.fetch,
                                       layers |-> b.layers])
          /\ budgets' = b.heap
          /\ clients' = [clients EXCEPT ![c].budget = b.field]
    /\ UNCHANGED <<merges, now, stack, policy, topts, reqs>>

\* bound.request(route, options), up to its first suspension
StartRequest(r, b, method, options, hasSignal) ==
    /\ reqs[r].pc = "new"
    /\ IF r <= 2 THEN TRUE ELSE reqs[r - 1].pc # "new"
    /\ LET bnd == bounds[b]
           req == [reqs[r] EXCEPT !.bound = b, !.method = method, !.options = options,
                                  !.hasSignal = hasSignal]
           started(run) == reqs' = [reqs EXCEPT ![r] = observe(r, run.req)]
       IN started(callInner(Run(req, budgets), r, bnd, Len(bnd.layers) + 1, options, now,
                            NoChoice))
    /\ UNCHANGED <<merges, now, stack, policy, topts, clients, budgets, bounds>>

\* The executor's call settles with outcome o (its `finally` clears the
\* timeout timer); the continuations of the layers run to the next suspension.
InnerSettle(r, o, verdict, random) ==
    /\ reqs[r].pc = "inflight"
    /\ LET bnd == bounds[reqs[r].bound]
           iR == retryIndex(bnd.layers, Len(bnd.layers))
           pol == IF iR = 0 THEN EmptyPolicy ELSE bnd.layers[iR].policy
           e == errorOf(o, r, reqs[r].execCalls)
           retryable == /\ o.kind = "RequestError"
                        /\ IF pol.shouldRetry = "custom" THEN verdict = "yes" ELSE defaultShouldRetry(e)
           req == [reqs[r] EXCEPT !.lastInner = IF o.kind = "ok" THEN NoErr ELSE e,
                                  !.failAt = IF o.kind = "ok" THEN @ ELSE now,
                                  !.allRetryable = @ /\ retryable,
                                  !.execTimer = FALSE]
           settled(run) ==
               /\ reqs' = [reqs EXCEPT ![r] = observe(r, run.req)]
               /\ budgets' = run.heap
       IN settled(settleInto(Run(req, budgets), r, bnd, 1,
                             IF o.kind = "ok" THEN Success ELSE Failure(e), now,
                             Choice(verdict, random)))
    /\ UNCHANGED <<merges, now, stack, policy, topts, clients, bounds>>

\* fetch settles for request r as `fetched`: the rest of request runs (its
\* `finally` clears the timeout timer), then the continuations of the layers
\* to the next suspension.  The requests here leave parseSuccessResponseBody
\* unset, so the body is parsed.
FetchSettle(r, fetched) ==
    /\ reqs[r].pc = "inflight"
    /\ LET bnd == bounds[reqs[r].bound]
           out == requestSettles(fetched, TRUE, r, reqs[r].execCalls)
           req == [reqs[r] EXCEPT !.lastInner = out.err,
                                  !.failAt = IF out.ok THEN @ ELSE now,
                                  !.allRetryable = @ /\ ~out.ok /\ out.err.kind = "RequestError"
                                                     /\ defaultShouldRetry(out.err),
                                  !.execTimer = FALSE,
                                  !.fetched = fetched]
           settled(run) ==
               /\ reqs' = [reqs EXCEPT ![r] = observe(r, run.req)]
               /\ budgets' = run.heap
       IN settled(settleInto(Run(req, budgets), r, bnd, 1, out, now, NoChoice))
    /\ UNCHANGED <<merges, now, stack, policy, topts, clients, bounds>>

\* One call of mergeRequestOptions: of a and {} ("empty"), a and undefined
\* ("absent"), a and b, b and c, the result of a and b and c ("left"), a and
\* the result of b and c ("right")
Merge(call) ==
    /\ merges[call] = None
    /\ call = "bc" => merges.b # None
    /\ call = "left" => merges.ab # None
    /\ call = "right" => merges.bc # None
    /\ merges' = [merges EXCEPT ![call] =
           CASE call = "empty" -> Some(mergeRequestOptions(merges.a, Some(NoOptions)))
             [] call = "absent" -> Some(mergeRequestOptions(merges.a, None))
             [] call = "ab" -> Some(mergeRequestOptions(merges.a, merges.b))
             [] call = "bc" -> Some(mergeRequestOptions(Val(merges.b), merges.c))
             [] call = "left" -> Some(mergeRequestOptions(Val(merges.ab), merges.c))
             [] OTHER -> Some(mergeRequestOptions(merges.a, merges.bc))]
    /\ UNCHANGED <<now, stack, policy, topts, clients, budgets, bounds, reqs>>

\* mergeRequestOptions(a, b) called with the objects on the heap
MergeObjects ==
    /\ Len(merges.heap) >= 1
    /\ merges.result = 0
    /\ LET call == mergeRequestOptionsOn(merges.heap, 1, IF merges.b = None THEN 0 ELSE 2)
       IN merges' = [merges EXCEPT !.heap = call.heap, !.result = call.result]
    /\ UNCHANGED <<now, stack, policy, topts, clients, budgets, bounds, reqs>>

\* What a custom shouldRetry of request r's client can answer, and the values
\* of Math.random that matter to its retry layer after outcome o
retryPolicyOf(r) ==
    LET bnd == bounds[reqs[r].bound]
        iR == retryIndex(bnd.layers, Len(bnd.layers))
    IN IF iR = 0 THEN EmptyPolicy ELSE bnd.layers[iR].policy

verdictsFor(r, o) ==
    IF reqs[r].pc = "inflight" /\ reqs[r].looping /\ o.kind = "RequestError"
       /\ retryPolicyOf(r).shouldRetry = "custom"
    THEN Verdicts ELSE {"yes"}

randomsFor(r, o, v) ==
    IF reqs[r].pc = "inflight" /\ reqs[r].looping /\ v = "yes" /\ o.kind = "RequestError"
       /\ retryPolicyOf(r).jitter # Some(0)
    THEN RandomQuarters ELSE {0}

\* The delay timer of sleepMs fires: the next attempt starts
TimerFire(r) ==
    /\ reqs[r].pc = "sleeping"
    /\ timerDue(reqs[r], now)
    /\ LET bnd == bounds[reqs[r].bound]
           i == reqs[r].sleepAt
           req == [reqs[r] EXCEPT !.sleepAt = 0, !.sleepTimer = FALSE]
           woken(run) == reqs' = [reqs EXCEPT ![r] = observe(r, run.req)]
       IN woken(callInner(Run(req, budgets), r, bnd, i,
                          frameOf(reqs[r], bnd.layers, i).options, now, NoChoice))
    /\ UNCHANGED <<merges, now, stack, policy, topts, clients, budgets, bounds>>

\* The caller aborts the request's signal: a pending sleepMs rejects, and the
\* rejection passes the layers above it
Abort(r) ==
    /\ reqs[r].pc \in {"inflight", "sleeping"}
    /\ reqs[r].hasSignal
    /\ ~reqs[r].aborted
    /\ LET bnd == bounds[reqs[r].bound]
           i == reqs[r].sleepAt
           after(q) ==
               IF q.pc = "woken"
               THEN settleInto(Run(q, budgets), r, bnd, i + 1, Failure(q.error), now, NoChoice).req
               ELSE q
       IN reqs' = [reqs EXCEPT ![r] = observe(r, after(onAbort([reqs[r] EXCEPT !.aborted = TRUE], r)))]
    /\ UNCHANGED <<merges, now, stack, policy, topts, clients, budgets, bounds>>

\* Time passes.  It is followed only while a delay timer is armed, or a
\* deadline exists and a request can still read the clock: at other times
\* nothing of the pipeline depends on it.
timePending ==
    \/ \E r \in 1..MaxReq : reqs[r].pc = "sleeping" /\ reqs[r].wakeAt > now
    \/ /\ \E r \in 1..MaxReq : reqs[r].pc # "done"
       /\ \/ \E b \in 1..Len(bounds) : bounds[b].ctx.deadline # None
          \/ /\ Len(bounds) > 0
             /\ \E i \in 1..Len(bounds[1].layers) :
                   bounds[1].layers[i].options.getDeadline.kind = "number"

Tick(d) ==
    /\ now < MaxNow
    /\ timePending
    /\ now' = now + d
    /\ UNCHANGED <<merges, stack, policy, topts, clients, budgets, bounds, reqs>>

Next ==
    \/ \E c \in ClientIds, ctx \in Contexts : Bind(c, ctx, NoConfig)
    \/ \E r \in 1..MaxReq : \E b \in boundsFor(r), i \in inputsFor(r) :
          StartRequest(r, b, i.method, i.options, i.hasSignal)
    \/ \E r \in 1..MaxReq : \E o \in outcomesFor(r) :
          \E v \in verdictsFor(r, o) : \E q \in randomsFor(r, o, v) : InnerSettle(r, o, v, q)
    \/ \E r \in 1..MaxReq : TimerFire(r)
    \/ \E r \in 1..MaxReq : Abort(r)
    \/ \E d \in TickSteps : Tick(d)

Init ==
    /\ now = 0
    /\ stack = <<"retry">>
    /\ policy \in RetryPolicies
    /\ topts = EmptyTimeoutOptions
    /\ clients = [c \in ClientIds |-> compose(stack, Wrappers(policy, topts, HttpOptions(TRUE, NoConfig)))]
    /\ budgets = <<>>
    /\ bounds = <<>>
    /\ reqs = [r \in 1..MaxReq |-> IdleRequest]
    /\ merges = NoMerge

Spec == Init /\ [][Next]_vars

\* Clients composed with withTimeout, alone or inside withRetry
\* (compose(http, withTimeout(arg), withRetry(policy)))
InitTimeout ==
    /\ now = 0
    /\ stack \in { <<"timeout">>, <<"timeout", "retry">> }
    /\ policy = RetryPolicy(RetriesArray(<<1>>), Some(0), NoBudgetConfig, "default", None)
    /\ topts \in TimeoutOptionsSet
    /\ clients = [c \in ClientIds |-> compose(stack, Wrappers(policy, topts, HttpOptions(TRUE, NoConfig)))]
    /\ budgets = <<>>
    /\ bounds = <<>>
    /\ reqs = [r \in 1..MaxReq |-> IdleRequest]
    /\ merges = NoMerge

SpecTimeout == InitTimeout /\ [][Next]_vars

\* Clients composed with withTimeout alone, bound with and without a config
\* timeout, for requests that do and do not carry the deadline header already
DeadlineOptionsSet ==
    { TimeoutOptions(Some(300), "false", None, GetDeadlineUnset, HeaderUnset),
      TimeoutOptions(Some(700), "absent", None, GetDeadlineUnset, HeaderConfig(None, None)),
      TimeoutOptions(None, "true", Some(600), GetDeadlineNumber(1800),
                     HeaderConfig(Some("absolute-ms"), Some(TRUE))),
      TimeoutOptions(None, "absent", Some(900), GetDeadlineUnset,
                     HeaderConfig(Some("relative-ms"), Some(FALSE))) }

DeadlineInputs ==
    { RequestInput("GET", NoOptions, TRUE),
      RequestInput("GET", RequestOptions(Some(200), RetriesUndefined, None), FALSE),
      RequestInput("GET", RequestOptions(None, RetriesUndefined, Some(Header("x-timeout-ms", "manual"))), FALSE),
      RequestInput("GET", RequestOptions(None, RetriesUndefined, Some(Header("X-Timeout-Ms", "manual"))), FALSE) }

\* bind(ctx) and bind(ctx, {timeout: 400}), the latter for the first bound
\* client
BindConfigs == IF Len(bounds) = 0 THEN { NoConfig, Some(HttpConfig(Some(400))) } ELSE { NoConfig }

InitDeadline ==
    /\ now = 0
    /\ stack = <<"timeout">>
    /\ policy = EmptyPolicy
    /\ topts \in DeadlineOptionsSet
    /\ clients = [c \in ClientIds |-> compose(stack, Wrappers(policy, topts, HttpOptions(TRUE, NoConfig)))]
    /\ budgets = <<>>
    /\ bounds = <<>>
    /\ reqs = [r \in 1..MaxReq |-> IdleRequest]
    /\ merges = NoMerge

NextDeadline ==
    \/ \E c \in ClientIds, ctx \in Contexts, config \in BindConfigs : Bind(c, ctx, config)
    \/ \E r \in 1..MaxReq : \E b \in boundsFor(r) :
          \E i \in (IF r = 1 THEN DeadlineInputs ELSE BackgroundInputs) :
             StartRequest(r, b, i.method, i.options, i.hasSignal)
    \/ \E r \in 1..MaxReq : \E o \in outcomesFor(r) : InnerSettle(r, o, "yes", 0)
    \/ \E r \in 1..MaxReq : Abort(r)
    \/ \E d \in TickSteps : Tick(d)

SpecDeadline == InitDeadline /\ [][NextDeadline]_vars

\* Clients composed of several wrappers: every kind once with withTimeout
\* second and with withTimeout first; one kind twice in direct succession;
\* withRetry twice around withTimeout; withLogger inside and outside withRetry;
\* and a client without a fetch implementation
ComposeStacks ==
    { <<"auth", "timeout", "retry", "logger">>,
      <<"timeout", "auth", "retry", "logger">>,
      <<"auth", "auth2">>,
      <<"retry", "retry2">>,
      <<"retry", "timeout", "retry">>,
      <<"logger", "retry2">>,
      <<"retry2", "logger">> }

NoFetchStack == <<"timeout", "retry">>

ComposeInputs ==
    { RequestInput("GET", NoOptions, TRUE),
      RequestInput("POST", NoOptions, FALSE) }

InitCompose ==
    /\ now = 0
    /\ stack \in ComposeStacks \cup {NoFetchStack}
    /\ policy = RetryPolicy(RetriesArray(<<0>>), Some(0), NoBudgetConfig, "default", None)
    /\ topts = TimeoutOptions(Some(50), "absent", None, GetDeadlineUnset, HeaderUnset)
    /\ clients = [c \in ClientIds |->
                    compose(stack, Wrappers(policy, topts,
                                            HttpOptions(stack # NoFetchStack, NoConfig)))]
    /\ budgets = <<>>
    /\ bounds = <<>>
    /\ reqs = [r \in 1..MaxReq |-> IdleRequest]
    /\ merges = NoMerge

NextCompose ==
    \/ \E c \in ClientIds : Bind(c, Context(None), NoConfig)
    \/ \E r \in 1..MaxReq : \E b \in boundsFor(r) :
          \E i \in (IF r = 1 THEN ComposeInputs ELSE BackgroundInputs) :
             StartRequest(r, b, i.method, i.options, i.hasSignal)
    \/ \E r \in 1..MaxReq : \E o \in outcomesFor(r) : InnerSettle(r, o, "yes", 0)
    \/ \E r \in 1..MaxReq : TimerFire(r)
    \/ \E r \in 1..MaxReq : Abort(r)
    \/ \E d \in TickSteps : Tick(d)

SpecCompose == InitCompose /\ [][NextCompose]_vars

\* Clients of withRetry whose jitter is a function: one that throws (with and
\* without a budget), one that doubles the delay, one that returns a negative
\* number
JitterPolicies ==
    { JitterPolicy(RetriesArray(<<1>>), "throws", NoBudgetConfig),
      JitterPolicy(RetriesArray(<<0, 1>>), "throws", BudgetConfig(Some(20), Some(10), Some(10))),
      JitterPolicy(RetriesArray(<<1>>), "double", NoBudgetConfig),
      JitterPolicy(RetriesArray(<<1, 1>>), "negative", NoBudgetConfig) }

InitJitter ==
    /\ now = 0
    /\ stack = <<"retry">>
    /\ policy \in JitterPolicies
    /\ topts = EmptyTimeoutOptions
    /\ clients = [c \in ClientIds |-> compose(stack, Wrappers(policy, topts, HttpOptions(TRUE, NoConfig)))]
    /\ budgets = <<>>
    /\ bounds = <<>>
    /\ reqs = [r \in 1..MaxReq |-> IdleRequest]
    /\ merges = NoMerge

SpecJitter == InitJitter /\ [][Next]_vars

\* Clients of withRetry and requests whose retries is a shorthand string:
\* "exp,1,1", "invalid-shorthand", "cubic,1,2" (with allowNonIdempotent),
\* "exp,-1,2", "exp,1" and "linear,x,2"
ShorthandPolicies ==
    { RetryPolicy(RetriesString(<<Part("exp", None), Part("1", Some(1)), Part("1", Some(1))>>),
                  Some(0), NoBudgetConfig, "default", None),
      RetryPolicy(RetriesString(<<Part("invalid-shorthand", None)>>),
                  Some(0), NoBudgetConfig, "default", None),
      RetryPolicy(RetriesString(<<Part("cubic", None), Part("1", Some(1)), Part("2", Some(2))>>),
                  Some(0), NoBudgetConfig, "default", Some(TRUE)) }

ShorthandInputs ==
    { RequestInput("GET", NoOptions, TRUE),
      RequestInput("POST", NoOptions, FALSE),
      RequestInput("PUT", RequestOptions(None,
                       RetriesString(<<Part("exp", None), Part("-1", Some(-1)), Part("2", Some(2))>>),
                       None), FALSE),
      RequestInput("POST", RequestOptions(None,
                       RetriesString(<<Part("exp", None), Part("1", Some(1))>>),
                       None), FALSE),
      RequestInput("GET", RequestOptions(None,
                       RetriesString(<<Part("linear", None), Part("x", None), Part("2", Some(2))>>),
                       None), FALSE) }

InitShorthand ==
    /\ now = 0
    /\ stack = <<"retry">>
    /\ policy \in ShorthandPolicies
    /\ topts = EmptyTimeoutOptions
    /\ clients = [c \in ClientIds |-> compose(stack, Wrappers(policy, topts, HttpOptions(TRUE, NoConfig)))]
    /\ budgets = <<>>
    /\ bounds = <<>>
    /\ reqs = [r \in 1..MaxReq |-> IdleRequest]
    /\ merges = NoMerge

NextShorthand ==
    \/ \E c \in ClientIds : Bind(c, Context(None), NoConfig)
    \/ \E r \in 1..MaxReq : \E b \in boundsFor(r) :
          \E i \in (IF r = 1 THEN ShorthandInputs ELSE BackgroundInputs) :
             StartRequest(r, b, i.method, i.options, i.hasSignal)
    \/ \E r \in 1..MaxReq : \E o \in outcomesFor(r) : InnerSettle(r, o, "yes", 0)
    \/ \E r \in 1..MaxReq : TimerFire(r)
    \/ \E r \in 1..MaxReq : Abort(r)
    \/ \E d \in TickSteps : Tick(d)

SpecShorthand == InitShorthand /\ [][NextShorthand]_vars

\* Options objects for mergeRequestOptions.  Bases: without headers; with a
\* lower-case header; with one header under two spellings; with set-cookie and
\* another header; with an array under Set-Cookie and a query
OptionsWith(timeout, headers, query, undefined) ==
    [RequestOptions(timeout, RetriesUndefined, headers) EXCEPT !.query = query,
                                                             !.undefined = undefined]

Headers2(name1, value1, name2, value2) ==
    [k \in HeaderNames |-> IF k = name1 THEN Some(value1)
                           ELSE IF k = name2 THEN Some(value2) ELSE None]

MergeBases ==
    { OptionsWith(Some(100), None, None, {}),
      OptionsWith(Some(100), Some(Header("x-timeout-ms", "a1")), Some(Query(Some(1), None)), {}),
      OptionsWith(None, Some(Headers2("X-Timeout-Ms", Single("A1"), "x-timeout-ms", Single("a1"))),
                  None, {}),
      OptionsWith(None, Some(Headers2("set-cookie", Single("a1"), "authorization", Single("a2"))),
                  None, {}),
      OptionsWith(Some(100), Some(Header("Set-Cookie", "a1")), Some(Query(Some(1), Some(1))), {}),
      OptionsWith(None, Some(Headers2("authorization", Multi(<<"a1", "a2">>),
                                      "x-timeout-ms", Single("a3"))), None, {}) }

\* Second operands: undefined; {}; keys with the value undefined at the top
\* level and in headers and query; headers given as undefined; a header in
\* upper case and a timeout; set-cookie; an array and a query
MergeNexts ==
    { None,
      Some(NoOptions),
      Some(OptionsWith(None, Some(NoHeaders), Some(Query(None, Some(2))),
                       {"timeout", "x-timeout-ms", "authorization", "set-cookie", "query.a"})),
      Some(OptionsWith(None, None, None, {"headers", "query"})),
      Some(OptionsWith(Some(200), Some(Header("X-Timeout-Ms", "b1")), None, {})),
      Some(OptionsWith(None, Some(Header("set-cookie", "b1")), None, {})),
      Some(OptionsWith(None, Some(Headers2("authorization", Multi(<<"b1", "b2">>),
                                           "x-timeout-ms", Single("b3"))),
                       Some(Query(None, Some(2))), {})) }

\* Third operands
MergeLasts ==
    { None,
      Some(OptionsWith(None, Some(Header("x-timeout-ms", "c1")), None, {})),
      Some(OptionsWith(Some(300), Some(Headers2("set-cookie", Single("c1"),
                                                "authorization", Single("c2"))), None, {})) }

MergeCalls == {"empty", "absent", "ab", "bc", "left", "right"}

InitMerge ==
    /\ now = 0
    /\ stack = <<>>
    /\ policy = EmptyPolicy
    /\ topts = EmptyTimeoutOptions
    /\ clients = [c \in ClientIds |-> compose(stack, Wrappers(policy, topts, HttpOptions(TRUE, NoConfig)))]
    /\ budgets = <<>>
    /\ bounds = <<>>
    /\ reqs = [r \in 1..MaxReq |-> IdleRequest]
    /\ merges \in { Merges(a, b, c) : a \in MergeBases, b \in MergeNexts, c \in MergeLasts }

NextMerge == \E call \in MergeCalls : Merge(call)

SpecMerge == InitMerge /\ [][NextMerge]_vars

\* The base client alone (compose(http)) and inside withLogger, its requests
\* settled by what fetch does: responses with a readable body, without a
\* body, with a body that is not the JSON its content-type announces (a
\* Response whose body response.json() has consumed rejects response.text()),
\* with a body whose read fails or is cancelled; and rejections of fetch
Transports ==
    { Transport("response", 200, Some("text/plain"), "ok", "ok", None),
      Transport("response", 200, Some("application/json"), "ok", "error", None),
      Transport("response", 204, None, "error", "error", None),
      Transport("response", 200, Some("application/json"), "error", "error", None),
      Transport("response", 200, None, "ok", "abort", None),
      Transport("response", 404, Some("application/json"), "ok", "ok", None),
      Transport("response", 503, Some("text/plain"), "ok", "ok", Some(Seconds(0))),
      Transport("response", 503, Some("application/problem+json"), "error", "error", None),
      Transport("AbortError", 0, None, "ok", "ok", None),
      Transport("Error", 0, None, "ok", "ok", None) }

BackgroundTransports ==
    { Transport("response", 200, Some("text/plain"), "ok", "ok", None),
      Transport("response", 404, Some("application/json"), "ok", "ok", None) }

RequestStacks == { <<>>, <<"logger">> }

InitRequest ==
    /\ now = 0
    /\ stack \in RequestStacks
    /\ policy = EmptyPolicy
    /\ topts = EmptyTimeoutOptions
    /\ clients = [c \in ClientIds |-> compose(stack, Wrappers(policy, topts, HttpOptions(TRUE, NoConfig)))]
    /\ budgets = <<>>
    /\ bounds = <<>>
    /\ reqs = [r \in 1..MaxReq |-> IdleRequest]
    /\ merges = NoMerge

NextRequest ==
    \/ \E c \in ClientIds : Bind(c, Context(None), NoConfig)
    \/ \E r \in 1..MaxReq : \E b \in boundsFor(r) :
          \E i \in (IF r = 1 THEN TimeoutInputs ELSE BackgroundInputs) :
             StartRequest(r, b, i.method, i.options, i.hasSignal)
    \/ \E r \in 1..MaxReq :
          \E fetched \in (IF r = 1 THEN Transports ELSE BackgroundTransports) :
             FetchSettle(r, fetched)
    \/ \E r \in 1..MaxReq : Abort(r)

SpecRequest == InitRequest /\ [][NextRequest]_vars

\* Clients constructed with and without a config, bound with and without a
\* config, for requests with and without a timeout and headers of their own
ClientConfigs ==
    { NoConfig,
      Some(ConfigWith(Some(900), Some(Headers2("authorization", Single("c1"), "set-cookie", Single("c1"))))),
      Some(ConfigWith(None, Some(Header("x-timeout-ms", "c1")))) }

ConfigBindConfigs ==
    IF Len(bounds) = 0
    THEN { NoConfig,
           Some(ConfigWith(Some(400), Some(Headers2("authorization", Single("b1"), "set-cookie", Single("b1"))))),
           Some(ConfigWith(None, Some(Header("X-Timeout-Ms", "b1")))) }
    ELSE { NoConfig }

ConfigInputs ==
    { RequestInput("GET", NoOptions, FALSE),
      RequestInput("GET", RequestOptions(Some(200), RetriesUndefined,
                                         Some(Header("authorization", "a1"))), FALSE),
      RequestInput("GET", RequestOptions(Some(0), RetriesUndefined,
                                         Some(Headers2("x-timeout-ms", Single("a1"), "Set-Cookie", Single("a1")))), FALSE) }

InitConfig ==
    /\ now = 0
    /\ stack \in RequestStacks
    /\ policy = EmptyPolicy
    /\ topts = EmptyTimeoutOptions
    /\ \E config \in ClientConfigs :
          clients = [c \in ClientIds |-> compose(stack, Wrappers(policy, topts, HttpOptions(TRUE, config)))]
    /\ budgets = <<>>
    /\ bounds = <<>>
    /\ reqs = [r \in 1..MaxReq |-> IdleRequest]
    /\ merges = NoMerge

NextConfig ==
    \/ \E c \in ClientIds, config \in ConfigBindConfigs : Bind(c, Context(None), config)
    \/ \E r \in 1..MaxReq : \E b \in boundsFor(r) :
          \E i \in (IF r = 1 THEN ConfigInputs ELSE BackgroundInputs) :
             StartRequest(r, b, i.method, i.options, i.hasSignal)
    \/ \E r \in 1..MaxReq :
          \E fetched \in (IF r = 1 THEN Transports ELSE BackgroundTransports) :
             FetchSettle(r, fetched)

SpecConfig == InitConfig /\ [][NextConfig]_vars

\* A client of withRetry with a budget of 20 tokens that a retry lowers by 10
\* and a success refills by 5, for the requests of RequestInputs: a GET, a
\* POST (not retried) and a GET with retries: []
RefillPolicy ==
    RetryPolicy(RetriesArray(<<1>>), Some(0), BudgetConfig(Some(20), Some(5), Some(10)), "default", None)

InitRefill ==
    /\ now = 0
    /\ stack = <<"retry">>
    /\ policy = RefillPolicy
    /\ topts = EmptyTimeoutOptions
    /\ clients = [c \in ClientIds |-> compose(stack, Wrappers(policy, topts, HttpOptions(TRUE, NoConfig)))]
    /\ budgets = <<>>
    /\ bounds = <<>>
    /\ reqs = [r \in 1..MaxReq |-> IdleRequest]
    /\ merges = NoMerge

SpecRefill == InitRefill /\ [][Next]_vars

\* Clients of withRetry({retries: [0, 1], jitter: 0}) without and with a custom
\* shouldRetry, for attempts that fail without a status and with the statuses
\* around the limits of the default rule
StatusPolicies ==
    { RetryPolicy(RetriesArray(<<0, 1>>), Some(0), NoBudgetConfig, "default", None),
      RetryPolicy(RetriesArray(<<0, 1>>), Some(0), NoBudgetConfig, "custom", None) }

StatusOutcomes ==
    { Outcome("ok", None, None),
      Outcome("RequestError", None, None),
      Outcome("RequestError", Some(400), None),
      Outcome("RequestError", Some(404), None),
      Outcome("RequestError", Some(429), None),
      Outcome("RequestError", Some(499), None),
      Outcome("RequestError", Some(500), None),
      Outcome("RequestError", Some(503), None) }

InitStatus ==
    /\ now = 0
    /\ stack = <<"retry">>
    /\ policy \in StatusPolicies
    /\ topts = EmptyTimeoutOptions
    /\ clients = [c \in ClientIds |-> compose(stack, Wrappers(policy, topts, HttpOptions(TRUE, NoConfig)))]
    /\ budgets = <<>>
    /\ bounds = <<>>
    /\ reqs = [r \in 1..MaxReq |-> IdleRequest]
    /\ merges = NoMerge

NextStatus ==
    \/ \E c \in ClientIds : Bind(c, Context(None), NoConfig)
    \/ \E r \in 1..MaxReq : \E b \in boundsFor(r), i \in inputsFor(r) :
          StartRequest(r, b, i.method, i.options, i.hasSignal)
    \/ \E r \in 1..MaxReq : \E o \in (IF r = 1 THEN StatusOutcomes ELSE BackgroundOutcomes) :
          \E v \in verdictsFor(r, o) : InnerSettle(r, o, v, 0)
    \/ \E r \in 1..MaxReq : TimerFire(r)
    \/ \E r \in 1..MaxReq : Abort(r)
    \/ \E d \in TickSteps : Tick(d)

SpecStatus == InitStatus /\ [][NextStatus]_vars

\* Clients of withRetry({retries: [1, 0]}) with jitter 0 and with the default
\* jitter, for failures that carry a Retry-After header in seconds (also
\* negative), as a date, as another text, or none, with the statuses 429 and
\* 503 and with others
RetryAfterPolicies ==
    { RetryPolicy(RetriesArray(<<1, 0>>), Some(0), NoBudgetConfig, "default", None),
      RetryPolicy(RetriesArray(<<1, 0>>), None, NoBudgetConfig, "default", None) }

\* The date (epoch ms 1000) is met when it is whole seconds away, or past
RetryAfterOutcomes ==
    { Outcome("ok", None, None),
      Outcome("RequestError", Some(429), Some(Seconds(0))),
      Outcome("RequestError", Some(429), Some(Seconds(1))),
      Outcome("RequestError", Some(503), Some(Seconds(0 - 5))),
      Outcome("RequestError", Some(503), Some(NotADelay)),
      Outcome("RequestError", Some(429), None),
      Outcome("RequestError", Some(500), Some(Seconds(1))),
      Outcome("RequestError", Some(502), Some(Seconds(0))) }
    \cup (IF now >= 1000 \/ now % 1000 = 0
          THEN { Outcome("RequestError", Some(503), Some(HttpDate(1000))) }
          ELSE {})

InitRetryAfter ==
    /\ now = 0
    /\ stack = <<"retry">>
    /\ policy \in RetryAfterPolicies
    /\ topts = EmptyTimeoutOptions
    /\ clients = [c \in ClientIds |-> compose(stack, Wrappers(policy, topts, HttpOptions(TRUE, NoConfig)))]
    /\ budgets = <<>>
    /\ bounds = <<>>
    /\ reqs = [r \in 1..MaxReq |-> IdleRequest]
    /\ merges = NoMerge

NextRetryAfter ==
    \/ \E c \in ClientIds : Bind(c, Context(None), NoConfig)
    \/ \E r \in 1..MaxReq : \E b \in boundsFor(r), i \in inputsFor(r) :
          StartRequest(r, b, i.method, i.options, i.hasSignal)
    \/ \E r \in 1..MaxReq : \E o \in (IF r = 1 THEN RetryAfterOutcomes ELSE BackgroundOutcomes) :
          \E q \in randomsFor(r, o, "yes") : InnerSettle(r, o, "yes", q)
    \/ \E r \in 1..MaxReq : TimerFire(r)
    \/ \E r \in 1..MaxReq : Abort(r)
    \/ \E d \in TickSteps : Tick(d)

SpecRetryAfter == InitRetryAfter /\ [][NextRetryAfter]_vars

\* Clients of withRetry with a budget whose policy has a schedule, has none,
\* or has retries: 0, for requests that leave options.retries unset or set
\* it to [], 0, 1 or [0, 0]
OverridePolicies ==
    { RetryPolicy(RetriesArray(<<1>>), Some(0), BudgetConfig(Some(20), Some(5), Some(10)), "default", None),
      RetryPolicy(RetriesUndefined, Some(0), BudgetConfig(Some(20), Some(5), Some(10)), "default", None),
      RetryPolicy(RetriesCount(0), Some(0), BudgetConfig(Some(20), Some(5), Some(10)), "default", None) }

OverrideInputs ==
    { RequestInput("GET", NoOptions, FALSE),
      RequestInput("GET", RequestOptions(None, RetriesArray(<<>>), None), FALSE),
      RequestInput("GET", RequestOptions(None, RetriesCount(0), None), FALSE),
      RequestInput("GET", RequestOptions(None, RetriesCount(1), None), FALSE),
      RequestInput("GET", RequestOptions(None, RetriesArray(<<0, 0>>), None), FALSE) }

InitOverride ==
    /\ now = 0
    /\ stack = <<"retry">>
    /\ policy \in OverridePolicies
    /\ topts = EmptyTimeoutOptions
    /\ clients = [c \in ClientIds |-> compose(stack, Wrappers(policy, topts, HttpOptions(TRUE, NoConfig)))]
    /\ budgets = <<>>
    /\ bounds = <<>>
    /\ reqs = [r \in 1..MaxReq |-> IdleRequest]
    /\ merges = NoMerge

NextOverride ==
    \/ \E c \in ClientIds : Bind(c, Context(None), NoConfig)
    \/ \E r \in 1..MaxReq : \E b \in boundsFor(r) :
          \E i \in (IF r = 1 THEN OverrideInputs ELSE BackgroundInputs) :
             StartRequest(r, b, i.method, i.options, i.hasSignal)
    \/ \E r \in 1..MaxReq : \E o \in outcomesFor(r) : InnerSettle(r, o, "yes", 0)
    \/ \E r \in 1..MaxReq : TimerFire(r)
    \/ \E d \in TickSteps : Tick(d)

SpecOverride == InitOverride /\ [][NextOverride]_vars

\* Clients of withRetry with a budget that is never refilled
\* (budget: {maxTokens: 20, refillOnSuccess: 0, costPerRetry: 10}), delays of
\* 1 s and of 0 s then 1 s
ConsumePolicies ==
    { RetryPolicy(RetriesArray(<<1>>), Some(0), BudgetConfig(Some(20), Some(0), Some(10)), "default", None),
      RetryPolicy(RetriesArray(<<0, 1>>), Some(0), BudgetConfig(Some(20), Some(0), Some(10)), "default", None) }

InitConsume ==
    /\ now = 0
    /\ stack = <<"retry">>
    /\ policy \in ConsumePolicies
    /\ topts = EmptyTimeoutOptions
    /\ clients = [c \in ClientIds |-> compose(stack, Wrappers(policy, topts, HttpOptions(TRUE, NoConfig)))]
    /\ budgets = <<>>
    /\ bounds = <<>>
    /\ reqs = [r \in 1..MaxReq |-> IdleRequest]
    /\ merges = NoMerge

SpecConsume == InitConsume /\ [][Next]_vars

\* Clients composed with withTimeout alone: no options; a floor of 0 with a
\* default timeout of 0; a floor of 600 with a default timeout of 700.  The
\* requests carry no timeout, timeout: 0 and timeout: 200.
FloorOptionsSet ==
    { EmptyTimeoutOptions,
      TimeoutOptions(Some(0), "true", Some(0), GetDeadlineUnset, HeaderUnset),
      TimeoutOptions(Some(700), "absent", Some(600), GetDeadlineUnset, HeaderUnset) }

FloorInputs ==
    { RequestInput("GET", NoOptions, TRUE),
      RequestInput("GET", RequestOptions(Some(0), RetriesUndefined, None), FALSE),
      RequestInput("GET", RequestOptions(Some(200), RetriesUndefined, None), FALSE) }

InitFloor ==
    /\ now = 0
    /\ stack = <<"timeout">>
    /\ policy = EmptyPolicy
    /\ topts \in FloorOptionsSet
    /\ clients = [c \in ClientIds |-> compose(stack, Wrappers(policy, topts, HttpOptions(TRUE, NoConfig)))]
    /\ budgets = <<>>
    /\ bounds = <<>>
    /\ reqs = [r \in 1..MaxReq |-> IdleRequest]
    /\ merges = NoMerge

NextFloor ==
    \/ \E c \in ClientIds, ctx \in Contexts : Bind(c, ctx, NoConfig)
    \/ \E r \in 1..MaxReq : \E b \in boundsFor(r) :
          \E i \in (IF r = 1 THEN FloorInputs ELSE BackgroundInputs) :
             StartRequest(r, b, i.method, i.options, i.hasSignal)
    \/ \E r \in 1..MaxReq : \E o \in outcomesFor(r) : InnerSettle(r, o, "yes", 0)
    \/ \E r \in 1..MaxReq : Abort(r)
    \/ \E d \in TickSteps : Tick(d)

SpecFloor == InitFloor /\ [][NextFloor]_vars

\* Clients of withRetry({jitter: 0}), whose policy sets no retries, created
\* without a config and with the config {retries: [1]}, bound without a config
\* and with the config {retries: 2}, for a GET without options and a GET with
\* retries: [1]
ConfigRetriesPolicy == RetryPolicy(RetriesUndefined, Some(0), NoBudgetConfig, "default", None)

ConfigRetriesClientConfigs == { NoConfig, Some(ConfigRetries(RetriesArray(<<1>>))) }

ConfigRetriesBindConfigs ==
    IF Len(bounds) = 0 THEN { NoConfig, Some(ConfigRetries(RetriesCount(2))) } ELSE { NoConfig }

ConfigRetriesInputs ==
    { RequestInput("GET", NoOptions, FALSE),
      RequestInput("GET", RequestOptions(None, RetriesArray(<<1>>), None), FALSE) }

InitConfigRetries ==
    /\ now = 0
    /\ stack = <<"retry">>
    /\ policy = ConfigRetriesPolicy
    /\ topts = EmptyTimeoutOptions
    /\ \E config \in ConfigRetriesClientConfigs :
          clients = [c \in ClientIds |-> compose(stack, Wrappers(policy, topts, HttpOptions(TRUE, config)))]
    /\ budgets = <<>>
    /\ bounds = <<>>
    /\ reqs = [r \in 1..MaxReq |-> IdleRequest]
    /\ merges = NoMerge

NextConfigRetries ==
    \/ \E c \in ClientIds, config \in ConfigRetriesBindConfigs : Bind(c, Context(None), config)
    \/ \E r \in 1..MaxReq : \E b \in boundsFor(r) :
          \E i \in (IF r = 1 THEN ConfigRetriesInputs ELSE BackgroundInputs) :
             StartRequest(r, b, i.method, i.options, i.hasSignal)
    \/ \E r \in 1..MaxReq : \E o \in outcomesFor(r) : InnerSettle(r, o, "yes", 0)
    \/ \E r \in 1..MaxReq : TimerFire(r)
    \/ \E d \in TickSteps : Tick(d)

SpecConfigRetries == InitConfigRetries /\ [][NextConfigRetries]_vars

\* mergeRequestOptions(a, b) for the operands of MergeBases and MergeNexts,
\* each a plain object or an object of another kind (a class instance)
ObjectHeaps(a, b) ==
    { IF b = None THEN <<Object(pa, a, IF a.headers = None THEN 0 ELSE 1)>>
      ELSE <<Object(pa, a, IF a.headers = None THEN 0 ELSE 1),
             Object(pb, Val(b), IF Val(b).headers = None THEN 0 ELSE 2)>> :
      pa \in BOOLEAN, pb \in BOOLEAN }

InitMutate ==
    /\ now = 0
    /\ stack = <<>>
    /\ policy = EmptyPolicy
    /\ topts = EmptyTimeoutOptions
    /\ clients = [c \in ClientIds |-> compose(stack, Wrappers(policy, topts, HttpOptions(TRUE, NoConfig)))]
    /\ budgets = <<>>
    /\ bounds = <<>>
    /\ reqs = [r \in 1..MaxReq |-> IdleRequest]
    /\ \E a \in MergeBases, b \in MergeNexts : \E heap \in ObjectHeaps(a, b) :
          merges = [Merges(a, b, None) EXCEPT !.heap = heap]

NextMutate == MergeObjects

SpecMutate == InitMutate /\ [][NextMutate]_vars

-----------------------------------------------------------------------------
(* Properties of withRetry and withTimeout *)

\* The observed request, its retry layer's budget reference, and the budget
\* reference of a bound client (0: none)
obs == reqs[1]

budgetOf(b) ==
    LET layers == bounds[b].layers
        iR == retryIndex(layers, Len(layers))
    IN IF iR = 0 THEN 0 ELSE layers[iR].budget

obsBudget == IF obs.bound = 0 THEN 0 ELSE budgetOf(obs.bound)

\* The schedule the policy and the request's options resolve to
obsResolved == resolveRetriesScheduleSeconds(policy, obs.options.retries)

obsRetriable ==
    /\ obs.pc # "new"
    /\ obs.method \in {"GET", "HEAD", "PUT", "DELETE", "OPTIONS", "TRACE"} \/ policy.allowNonIdempotent = Some(TRUE)
    /\ obsResolved.ok

\* C1: a request through withRetry whose resolved schedule has length n >= 1
\* (idempotent method, or allowNonIdempotent set) invokes the inner request
\* at least once and at most n + 1 times.
C1_AttemptsBounded ==
    (obsRetriable /\ Len(obsResolved.schedule) >= 1)
        => /\ obs.calls >= 1
           /\ obs.calls <= Len(obsResolved.schedule) + 1

\* A two-delay schedule used up: three invocations
C1_Witness ==
    /\ obsRetriable
    /\ Len(obsResolved.schedule) = 2
    /\ obs.pc = "done"
    /\ obs.calls = 3

\* C2: when an inner attempt rejects with an AbortError, withRetry rejects
\* with that same error, starts no further attempt, does not consult
\* shouldRetry and leaves the budget unchanged.
C2_AbortPropagates ==
    [][ (/\ obs.pc = "inflight"
         /\ reqs'[1].lastInner.kind = "AbortError"
         /\ reqs'[1].lastInner.seq = obs.execCalls)
        => /\ reqs'[1].pc = "done"
           /\ reqs'[1].settled = "rejected"
           /\ reqs'[1].error = reqs'[1].lastInner
           /\ reqs'[1].error.origin = "inner"
           /\ reqs'[1].calls = obs.calls
           /\ reqs'[1].shouldRetryCalls = obs.shouldRetryCalls
           /\ budgets' = budgets ]_vars

\* The second attempt of a retry loop with a custom shouldRetry and a budget
\* was cancelled
C2_Witness ==
    /\ obs.pc = "done"
    /\ obs.looping
    /\ obs.calls = 2
    /\ obs.lastInner.kind = "AbortError"
    /\ obs.lastInner.seq = 2
    /\ obs.error = obs.lastInner
    /\ policy.shouldRetry = "custom"
    /\ obsBudget # 0

\* C3: when the caller's signal aborts while withRetry sleeps between two
\* attempts, the request rejects at once with an AbortError and the inner
\* request is not called again.
C3_AbortDuringSleep ==
    [][ /\ (obs.pc = "sleeping" /\ ~obs.aborted /\ reqs'[1].aborted)
            => /\ reqs'[1].pc = "done"
               /\ reqs'[1].settled = "rejected"
               /\ isAbortError(reqs'[1].error)
               /\ reqs'[1].calls = obs.calls
               /\ now' = now
        /\ obs.pc = "done" => reqs'[1] = obs ]_vars

\* A request rejected by the abort listener of the sleep after its first attempt
C3_Witness ==
    /\ obs.pc = "done"
    /\ obs.aborted
    /\ isAbortError(obs.error)
    /\ obs.error.origin = "sleepAbort"
    /\ obs.calls = 1
    /\ obs.grants = 1

\* C4: without allowNonIdempotent a POST or PATCH request is delegated to the
\* inner request exactly once and its outcome is returned unchanged, whatever
\* the schedule; with allowNonIdempotent = true the same request is retried
\* according to the schedule.
C4_Guarded ==
    (obs.pc # "new" /\ obs.method \in {"POST", "PATCH"} /\ policy.allowNonIdempotent # Some(TRUE))
        => /\ obs.calls = 1
           /\ obs.grants = 0
           /\ obs.shouldRetryCalls = 0
           /\ obs.pc = "done" =>
                 \/ obs.settled = "resolved" /\ obs.lastInner = NoErr
                 \/ obs.settled = "rejected" /\ obs.error = obs.lastInner /\ obs.error.seq = 1

C4_Allowed ==
    (/\ obs.pc = "inflight"
     /\ obs.method \in {"POST", "PATCH"}
     /\ policy.allowNonIdempotent = Some(TRUE)
     /\ obsResolved.ok
     /\ reqs'[1].lastInner.kind = "RequestError"
     /\ reqs'[1].lastInner.seq = obs.execCalls
     /\ reqs'[1].allRetryable
     /\ obs.calls <= Len(obsResolved.schedule)
     /\ obsBudget # 0 => budgets[obsBudget].tokens >= budgets[obsBudget].config.costPerRetry)
        => /\ reqs'[1].grants = obs.grants + 1
           /\ \/ reqs'[1].pc = "inflight" /\ reqs'[1].calls = obs.calls + 1
              \/ reqs'[1].pc = "sleeping" /\ reqs'[1].wakeAt = now + reqs'[1].delayMs
              \/ reqs'[1].pc = "done" /\ reqs'[1].error.origin = "sleepStart"

C4_IdempotencyGuard == []C4_Guarded /\ [][C4_Allowed]_vars

\* A POST under a policy with a schedule and no allowNonIdempotent failed with
\* a retryable status after one invocation
C4_Witness ==
    /\ obs.pc = "done"
    /\ obs.method = "POST"
    /\ policy.allowNonIdempotent # Some(TRUE)
    /\ Len(obsResolved.schedule) >= 1
    /\ obs.calls = 1
    /\ obs.settled = "rejected"
    /\ obs.lastInner.status = Some(503)

\* C5: when the schedule is exhausted, shouldRetry answers false or the
\* budget denies the retry, withRetry rejects with the error of the final
\* attempt itself, not a wrapper or an aggregate.
C5_FinalErrorSurfaced ==
    (/\ obs.pc = "done"
     /\ obs.looping
     /\ obs.settled = "rejected"
     /\ obs.lastInner.kind = "RequestError"
     /\ obs.lastInner.seq = obs.calls
     /\ obs.grants = obs.calls - 1
     /\ obs.error.origin # "shouldRetry")
        => /\ obs.error = obs.lastInner
           /\ obs.error.origin = "inner"
           /\ obs.error.req = 1
           /\ obs.error.seq = obs.execCalls

\* Every attempt of a one-delay schedule failed with a retryable error
C5_Witness ==
    /\ obs.pc = "done"
    /\ obs.looping
    /\ obs.allRetryable
    /\ obs.calls = Len(obs.schedule) + 1
    /\ obs.grants = Len(obs.schedule)
    /\ obs.settled = "rejected"
    /\ obs.error = obs.lastInner
    /\ obs.error.seq = obs.calls

\* C6: the tokens of a retry budget stay within 0 and maxTokens after every
\* consumption and every refill.
C6_TokensInRange ==
    \A i \in 1..Len(budgets) :
        /\ budgets[i].tokens >= 0
        /\ budgets[i].tokens <= budgets[i].config.maxTokens

\* A success refilled a budget that was full, and a budget was emptied
C6_Witness ==
    /\ obs.pc = "done"
    /\ obs.looping
    /\ obs.settled = "resolved"
    /\ obs.grants = 0
    /\ obsBudget # 0
    /\ budgets[obsBudget].config.refillOnSuccess > 0
    /\ budgets[obsBudget].tokens = budgets[obsBudget].config.maxTokens

\* C7: consuming from the budget is atomic: with refillOnSuccess = 0 the
\* retries granted over all requests never exceed floor(maxTokens /
\* costPerRetry).  With maxTokens = 1, costPerRetry = 1 and a two-delay
\* schedule, a request whose attempts all fail retryably sees exactly one
\* retry granted on the budget, and when the retry is its own, the failure of
\* that retry is what it rejects with.
C7_BudgetBound ==
    /\ \A i \in 1..Len(budgets) :
          (budgets[i].config.refillOnSuccess = 0 /\ budgets[i].config.costPerRetry > 0)
              => budgets[i].granted <= budgets[i].config.maxTokens \div budgets[i].config.costPerRetry
    /\ (/\ obs.pc = "done"
        /\ obs.looping
        /\ obs.allRetryable
        /\ obs.error.origin = "inner"
        /\ Len(obs.schedule) = 2
        /\ obsBudget # 0
        /\ budgets[obsBudget].config = [maxTokens |-> 10, refillOnSuccess |-> 0, costPerRetry |-> 10])
          => /\ budgets[obsBudget].granted = 1
             /\ obs.calls = obs.grants + 1
             /\ obs.error = obs.lastInner
             /\ obs.error.seq = obs.calls

\* The request took the single token, and its retry failed
C7_Witness ==
    /\ obs.pc = "done"
    /\ obs.looping
    /\ obs.allRetryable
    /\ Len(obs.schedule) = 2
    /\ obsBudget # 0
    /\ budgets[obsBudget].config = [maxTokens |-> 10, refillOnSuccess |-> 0, costPerRetry |-> 10]
    /\ budgets[obsBudget].granted = 1
    /\ obs.grants = 1
    /\ obs.calls = 2
    /\ obs.error.seq = 2

\* C8: the bound clients of one composed client share one budget state,
\* created once with tokens = maxTokens; clients of separate factory
\* invocations never share one, and a retry or a success on one leaves the
\* other's tokens unchanged.
C8_Shared ==
    /\ \A b1, b2 \in 1..Len(bounds) :
          /\ bounds[b1].client = bounds[b2].client => budgetOf(b1) = budgetOf(b2)
          /\ (bounds[b1].client # bounds[b2].client /\ budgetOf(b1) # 0) => budgetOf(b1) # budgetOf(b2)
    /\ \A b \in 1..Len(bounds) :
          /\ budgetOf(b) = 0 <=> policy.budget.off
          /\ budgetOf(b) = clients[bounds[b].client].budget
    /\ Len(budgets) = Cardinality({ budgetOf(b) : b \in 1..Len(bounds) } \ {0})

C8_Step ==
    /\ Len(budgets') >= Len(budgets)
    /\ \A i \in 1..Len(budgets') :
          i > Len(budgets) => /\ budgets'[i].tokens = budgets'[i].config.maxTokens
                              /\ budgets'[i].granted = 0
    /\ bounds' # bounds => \A i \in 1..Len(budgets) : budgets'[i] = budgets[i]
    /\ \A i \in 1..Len(budgets) :
          budgets'[i] # budgets[i]
              => \E r \in 1..MaxReq : /\ reqs'[r] # reqs[r]
                                      /\ reqs[r].bound # 0
                                      /\ budgetOf(reqs[r].bound) = i

C8_BudgetScope == []C8_Shared /\ [][C8_Step]_vars

\* Two bound clients of one client and one of another; the shared budget was
\* used, the other one is untouched
C8_Witness ==
    /\ Len(bounds) = 3
    /\ bounds[1].client = bounds[2].client
    /\ bounds[3].client # bounds[1].client
    /\ budgetOf(1) # 0
    /\ budgetOf(1) = budgetOf(2)
    /\ budgetOf(3) # budgetOf(1)
    /\ budgets[budgetOf(1)].tokens < budgets[budgetOf(1)].config.maxTokens
    /\ budgets[budgetOf(3)].tokens = budgets[budgetOf(3)].config.maxTokens

\* Attempt k + 1 of a request starts only after attempt k has failed and the
\* delay computed for it has elapsed
C9_Sequencing ==
    (reqs'[1].calls = obs.calls + 1 /\ obs.calls >= 1)
        => /\ obs.pc \in {"inflight", "sleeping"}
           /\ reqs'[1].pc = "inflight"
           /\ reqs'[1].lastInner.kind = "RequestError"
           /\ reqs'[1].lastInner.seq = obs.calls
           /\ now >= reqs'[1].failAt + reqs'[1].delayMs
           /\ obs.pc = "inflight" => reqs'[1].delayMs <= 0

\* The second invocation under schedule [1] and jitter 0 after a 503
C9_SecondAfter503 ==
    /\ obs.looping
    /\ obs.schedule = <<1>>
    /\ policy.jitter = Some(0)
    /\ obs.calls = 1
    /\ reqs'[1].calls = 2
    /\ reqs'[1].lastInner.status = Some(503)

C9_TwoInvocations ==
    (/\ obs.pc = "done"
     /\ obs.looping
     /\ obs.schedule = <<1>>
     /\ obs.settled = "resolved"
     /\ obs.grants >= 1)
        => obs.calls = 2

\* C9 as stated: attempts are strictly sequential, each retry waits for the
\* failure of the previous attempt and the full computed delay; with schedule
\* [1], jitter 0 and an inner request that fails with 503 and then succeeds,
\* there are exactly two invocations and the second is at least 1000 ms
\* after the first failure.
C9_AsStated ==
    /\ []C9_TwoInvocations
    /\ [][ /\ C9_Sequencing
           /\ C9_SecondAfter503 => now >= reqs'[1].failAt + 1000 ]_vars

\* C9, amended: the same, for a 503 response that carries no Retry-After
\* header (a Retry-After value replaces the schedule's delay).
C9_StrictSequencing ==
    /\ []C9_TwoInvocations
    /\ [][ /\ C9_Sequencing
           /\ (C9_SecondAfter503 /\ reqs'[1].lastInner.retryAfter = None)
                 => now >= reqs'[1].failAt + 1000 ]_vars

\* The second invocation is in flight, 1000 ms or more after the 503
C9_Witness ==
    /\ obs.pc = "inflight"
    /\ obs.looping
    /\ obs.schedule = <<1>>
    /\ policy.jitter = Some(0)
    /\ obs.calls = 2
    /\ obs.lastInner.status = Some(503)
    /\ obs.lastInner.retryAfter = None
    /\ obs.delayMs = 1000
    /\ now >= obs.failAt + 1000

\* The deadline of the observed request as the specification resolves it: the
\* resolver's number, else ctx.deadline; none when the resolver throws
obsDeadline ==
    CASE topts.getDeadline.kind = "number" -> Some(topts.getDeadline.value)
      [] topts.getDeadline.kind = "throws" -> None
      [] OTHER -> bounds[obs.bound].ctx.deadline

\* C10: withTimeout rejects with an AbortError without invoking the inner
\* request whenever deadline propagation is enabled and the resolved deadline
\* is not after now; in every other case it invokes the inner request exactly
\* once.  Stated for clients whose deadlineHeader option is well formed (a
\* malformed shorthand is a configuration error that parseDeadlineHeader
\* reports when the request is made).
C10_FailFastOrOnce ==
    (obs.tCalls >= 1 /\ topts.deadlineHeader.kind # "malformed") =>
        IF /\ topts.propagateDeadline \in {"absent", "true"}
           /\ obsDeadline # None
           /\ Val(obsDeadline) <= obs.tLast.at
        THEN obs.tLast.kind = "AbortError" /\ obs.tLast.inner = 0
        ELSE obs.tLast.kind = "call" /\ obs.tLast.inner = 1

\* The last withTimeout invocation of the observed request, the deadline it
\* resolves (propagation on unless propagateDeadline is false; the resolver's
\* number, else ctx.deadline), its floor and its base timeout
obsT == obs.tLast

obsPropagated ==
    IF topts.propagateDeadline = "false" THEN None
    ELSE IF topts.getDeadline.kind = "number" THEN Some(topts.getDeadline.value)
    ELSE bounds[obs.bound].ctx.deadline

obsMinTimeout == IF topts.minTimeout = None THEN 1 ELSE Val(topts.minTimeout)

obsBaseTimeout == IF obsT.given.timeout # None THEN obsT.given.timeout ELSE topts.defaultTimeout

obsPassedInward == obs.tCalls >= 1 /\ obsT.kind = "call"

obsConfig == bounds[obs.bound].config

C13_BindTimeoutWins ==
    (/\ obs.pc = "inflight"
     /\ obsPassedInward
     /\ obsConfig # None
     /\ Val(obsConfig).timeout # None
     /\ obsT.given.timeout = None
     /\ obsPropagated = None)
        => obs.sent.timeout = Val(obsConfig).timeout

\* The deadline header of the observed request: as the caller gave it (under
\* either spelling) and as withTimeout passed it inward
headerText(headers, name) ==
    IF headers = None \/ Val(headers)[name] = None THEN None
    ELSE Some(Val(Val(headers)[name]).values[1])

obsGivenHeader ==
    headerText(obsT.given.headers, "X-Timeout-Ms") \cup headerText(obsT.given.headers, "x-timeout-ms")

obsPassedHeader ==
    headerText(obsT.passed.headers, "X-Timeout-Ms") \cup headerText(obsT.passed.headers, "x-timeout-ms")

obsHeaderValue ==
    IF topts.deadlineHeader.mode = Some("absolute-ms") THEN ToString(Val(obsPropagated))
    ELSE ToString(Max(Val(obsPropagated) - obsT.at, obsMinTimeout))

obsUnexpired == obsPropagated # None /\ Val(obsPropagated) - obsT.at > 0

\* C14 as stated: with a deadlineHeader configured and a deadline resolved and
\* unexpired, the options passed inward carry the header with String(deadline)
\* (absolute-ms) or String(max(deadline - now, minTimeout)) (relative-ms, the
\* default); without a resolved deadline no header is added.
C14_AsStated ==
    obsPassedInward =>
        /\ (topts.deadlineHeader.kind = "config" /\ obsUnexpired)
              => obsPassedHeader = Some(obsHeaderValue)
        /\ obsPropagated = None => obsPassedHeader = obsGivenHeader

\* C14: the same, for requests whose options do not carry the header already
\* or whose client sets respectExisting to false (a header of the caller is
\* kept otherwise).
C14_DeadlineHeader ==
    obsPassedInward =>
        /\ (/\ topts.deadlineHeader.kind = "config"
            /\ obsUnexpired
            /\ obsGivenHeader = None \/ topts.deadlineHeader.respectExisting = Some(FALSE))
              => obsPassedHeader = Some(obsHeaderValue)
        /\ obsPropagated = None => obsPassedHeader = obsGivenHeader

\* At now = 1000 the header of a request with deadline 1800 is "800" in the
\* default (relative) mode
C14_Witness ==
    /\ obsPassedInward
    /\ topts.deadlineHeader.kind = "config"
    /\ topts.deadlineHeader.mode = None
    /\ obsT.at = 1000
    /\ obsPropagated = Some(1800)
    /\ obsGivenHeader = None
    /\ obsPassedHeader = Some("800")

\* C15: a deadline header the caller's options carry already, under any letter
\* case, reaches the inner request with its value unchanged unless
\* respectExisting is false.
C15_RespectExisting ==
    (/\ obsPassedInward
     /\ topts.deadlineHeader.kind = "config"
     /\ topts.deadlineHeader.respectExisting # Some(FALSE)
     /\ obsGivenHeader # None)
        => obsPassedHeader = obsGivenHeader

\* A header given as X-Timeout-Ms is kept although an unexpired deadline is
\* resolved
C15_Witness ==
    /\ obsPassedInward
    /\ topts.deadlineHeader.kind = "config"
    /\ topts.deadlineHeader.respectExisting # Some(FALSE)
    /\ obsUnexpired
    /\ headerText(obsT.given.headers, "X-Timeout-Ms") = Some("manual")
    /\ obsPassedHeader = Some("manual")

-----------------------------------------------------------------------------
(* Properties of composed clients *)

distinctKinds(wrappers) ==
    \A i, j \in 1..Len(wrappers) :
        i # j => wrappers[i] # wrappers[j] /\ <<wrappers[i], wrappers[j]>> # <<"retry", "retry2">>

\* The schedule length the retry wrapper applied last was configured with
configuredRetries ==
    IF hasLayer(stack, "retry2") THEN Len(SecondPolicy.retries.delays)
    ELSE Len(policy.retries.delays)

\* C16: in a client composed of distinct wrapper kinds, in any order, every
\* wrapper's configured behaviour is in effect: a request reaches the
\* transport, every transport call carries the authorization header when
\* withAuth is composed in, and a GET that settles with a 503 has been sent as
\* often as withRetry's schedule allows.
C16_ComposedBehaviour ==
    (stack \in ComposeStacks /\ distinctKinds(stack) /\ obs.pc = "done" /\ ~obs.aborted) =>
        /\ obs.execCalls >= 1
        /\ hasLayer(stack, "auth") => obs.authSent
        /\ (/\ hasLayer(stack, "retry") \/ hasLayer(stack, "retry2")
            /\ obs.method = "GET"
            /\ obs.settled = "rejected"
            /\ obs.error.kind = "RequestError"
            /\ obs.error.status = Some(503))
              => obs.execCalls = configuredRetries + 1

\* C17: the same wrapper kind applied twice in direct succession installs one
\* request layer, which uses the last configuration only: per request the
\* first auth strategy is never called and the second exactly once.
C17_LastConfiguration ==
    /\ stack = <<"auth", "auth2">> =>
          /\ \A b \in 1..Len(bounds) :
                /\ Len(bounds[b].layers) = 1
                /\ bounds[b].layers[1].strategy = Some(2)
          /\ obs.pc # "new" => obs.authCalls = <<0, 1>>
    /\ stack = <<"retry", "retry2">> =>
          \A b \in 1..Len(bounds) :
             /\ Len(bounds[b].layers) = 1
             /\ bounds[b].layers[1].policy = SecondPolicy

\* A request through withAuth(second)(withAuth(first)(client)) has settled
\* with the second strategy's token sent
C17_Witness ==
    /\ stack = <<"auth", "auth2">>
    /\ obs.pc = "done"
    /\ obs.settled = "resolved"
    /\ obs.execCalls = 1
    /\ obs.authSent
    /\ obs.authCalls = <<0, 1>>

\* C18: one retry loop is active per request however often withRetry is
\* applied, other wrappers in between included: with a schedule of length n
\* the transport is invoked at most n + 1 times.
C18_OneRetryLoop ==
    (hasLayer(stack, "retry") \/ hasLayer(stack, "retry2"))
        => obs.execCalls <= configuredRetries + 1

\* C19: for a request that resolves after k retryable failures, a logger
\* composed in before withRetry emits k error events and then one response
\* event; a logger composed in after withRetry emits one event, for the final
\* outcome.
C19_LoggerPlacement ==
    /\ (stack = <<"logger", "retry2">> /\ obs.pc = "done" /\ obs.settled = "resolved") =>
          /\ Len(obs.events) = obs.execCalls
          /\ \A j \in 1..Len(obs.events) :
                obs.events[j].message = IF j < Len(obs.events) THEN "http.error" ELSE "http.response"
    /\ (stack = <<"retry2", "logger">> /\ obs.pc = "done") =>
          /\ Len(obs.events) = 1
          /\ obs.events[1].message = IF obs.settled = "resolved" THEN "http.response" ELSE "http.error"

\* The logger inside the loop has reported two failures and the response
C19_Witness ==
    /\ stack = <<"logger", "retry2">>
    /\ obs.pc = "done"
    /\ obs.settled = "resolved"
    /\ obs.execCalls = 3
    /\ Len(obs.events) = 3
    /\ obs.events[1].message = "http.error"
    /\ obs.events[2].message = "http.error"
    /\ obs.events[3].message = "http.response"

\* C20: when a request has settled, by whatever path, none of its timers is
\* pending: neither the executor's timeout timer nor the delay timer of the
\* retry layer.
C20_TimersCleared ==
    obs.pc = "done" => ~obs.execTimer /\ ~obs.sleepTimer

-----------------------------------------------------------------------------
(* Properties of the executor and of the merge of options *)

\* What fetch did for the observed request, once it has settled through the
\* base client
obsFetched == obs.fetched

obsBodyRead == parseResponseData(obsFetched, TRUE)

obsSettledByFetch == obs.pc = "done" /\ obsFetched.kind # "none"

\* C21 as stated: whenever fetch resolves with a status below 400 the request
\* resolves, and whenever it resolves with a status of 400 or more the request
\* rejects with a RequestError carrying that status.
C21_AsStated ==
    (obsSettledByFetch /\ obsFetched.kind = "response")
    => IF obsFetched.status < 400 THEN obs.settled = "resolved"
       ELSE /\ obs.settled = "rejected"
            /\ obs.error.kind = "RequestError"
            /\ obs.error.status = Some(obsFetched.status)

\* C21: a request settles in exactly one of these ways.  When fetch resolves
\* and the body is read (or not parsed), it resolves for a status below 400
\* and rejects with a RequestError carrying the status for a status of 400 or
\* more.  When fetch, or the read of the body, rejects with an AbortError, it
\* rejects with that very error; when they reject with anything else, it
\* rejects with a RequestError without status.
C21_Settles ==
    obsSettledByFetch =>
        LET n == obs.execCalls
            cancelled == \/ obsFetched.kind = "AbortError"
                         \/ obsFetched.kind = "response" /\ obsBodyRead = "abort"
            failed == \/ obsFetched.kind = "Error"
                      \/ obsFetched.kind = "response" /\ obsBodyRead = "error"
        IN CASE cancelled ->
                  /\ obs.settled = "rejected"
                  /\ obs.error = AbortErrorAt(1, n, IF obsFetched.kind = "AbortError"
                                                     THEN "transport" ELSE "body")
             [] failed ->
                  /\ obs.settled = "rejected"
                  /\ obs.error.kind = "RequestError"
                  /\ obs.error.status = None
             [] OTHER ->
                  IF obsFetched.status < 400
                  THEN obs.settled = "resolved" /\ obs.error = NoErr
                  ELSE /\ obs.settled = "rejected"
                       /\ obs.error.kind = "RequestError"
                       /\ obs.error.status = Some(obsFetched.status)

\* A request rejected with the AbortError fetch rejected with
C21_Witness ==
    /\ obsSettledByFetch
    /\ obsFetched.kind = "AbortError"
    /\ obs.settled = "rejected"
    /\ isAbortError(obs.error)

\* C22: a jitter function that throws while a retry delay is computed does
\* not end the request: the caller never receives the function's exception,
\* and a failure that is retried is followed by the un-jittered delay of the
\* attempt.
C22_JitterFallback ==
    /\ ~(obs.pc = "done" /\ obs.error.origin = "jitter")
    /\ (obs.pc = "sleeping" /\ policy.jitterFn = "throws")
       => obs.delayMs = 1000 * baseDelaySeconds(obs.lastInner, obs.attempt - 1, obs.schedule,
                                               obs.failAt)

\* C23: when the getDeadline function of withTimeout throws, the wrapper
\* behaves as without a deadline: it calls the inner request with the base
\* timeout and without a deadline header, and the caller never receives the
\* function's exception.
C23_ResolverFallback ==
    /\ ~(obs.pc = "done" /\ obs.error.origin = "getDeadline")
    /\ (obs.tCalls >= 1 /\ topts.getDeadline.kind = "throws")
       => /\ obsT.kind = "call"
          /\ obsT.passed.timeout = obsBaseTimeout
          /\ obsPassedHeader = obsGivenHeader

\* C24: when the retries value in force for a request (options.retries, else
\* policy.retries) is a shorthand string that does not parse, the request is
\* rejected with the 'Invalid retries shorthand' error and the inner request
\* is never invoked, whatever the HTTP method.
C24_MalformedShorthand ==
    (obs.pc # "new" /\ ~obsResolved.ok)
    => /\ obs.pc = "done"
       /\ obs.settled = "rejected"
       /\ obs.error.origin = "retries"
       /\ obs.execCalls = 0

\* The values a headers object (or None) holds under one spelling of a name,
\* and under all spellings of the lower-case name k, in the order of its keys
valuesAt(headers, name) ==
    IF headers = None \/ Val(headers)[name] = None THEN <<>> ELSE Val(Val(headers)[name]).values

upperCase(k) ==
    CASE k = "x-timeout-ms" -> "X-Timeout-Ms"
      [] k = "set-cookie" -> "Set-Cookie"
      [] OTHER -> k

valuesOf(headers, k) ==
    IF upperCase(k) = k THEN valuesAt(headers, k)
    ELSE valuesAt(headers, upperCase(k)) \o valuesAt(headers, k)

LowerNames == {k \in HeaderNames : toLowerCase(k) = k}

\* The keys of a headers object are lower case, its values strings
lowerCaseKeys(headers) ==
    headers # None /\ \A k \in HeaderNames : Val(headers)[k] # None => k \in LowerNames

\* C25 as stated: mergeRequestOptions(base, {}) and
\* mergeRequestOptions(base, undefined) are structurally equal to base, for
\* every base.
C25_AsStated ==
    \A call \in {"empty", "absent"} : merges[call] # None => Val(merges[call]) = merges.a

\* C25: mergeRequestOptions(base, {}) and mergeRequestOptions(base, undefined)
\* equal base in every field but headers; their headers field is present, has
\* lower-case keys only and holds under each key the values base holds under
\* the spellings of that key; for a base whose headers are present with
\* lower-case keys the result is structurally equal to base.
C25_EmptyMerge ==
    \A call \in {"empty", "absent"} :
        merges[call] # None =>
            LET res == Val(merges[call])
            IN /\ [res EXCEPT !.headers = merges.a.headers] = merges.a
               /\ lowerCaseKeys(res.headers)
               /\ \A k \in LowerNames : valuesAt(res.headers, k) = valuesOf(merges.a.headers, k)
               /\ lowerCaseKeys(merges.a.headers) => res = merges.a

\* Both merges made for a base with a lower-case header, and for a base with
\* a header in upper case
C25_Witness ==
    /\ merges.empty # None
    /\ merges.absent # None
    /\ \/ lowerCaseKeys(merges.a.headers) /\ valuesAt(merges.a.headers, "x-timeout-ms") # <<>>
       \/ valuesAt(merges.a.headers, "Set-Cookie") # <<>>

\* Whether a side's value for the lower-case key k is a sequence
isSequence(headers, k) ==
    \/ Len(valuesOf(headers, k)) > 1
    \/ \E name \in HeaderNames :
          /\ toLowerCase(name) = k
          /\ headers # None /\ Val(headers)[name] # None /\ Val(Val(headers)[name]).array

\* C26: in the result of mergeRequestOptions(base, next), for every header
\* key compared in lower case: when next has no value the value of base is
\* kept; when the key is set-cookie or either side's value is a sequence, the
\* values are those of base followed by those of next; otherwise the value is
\* that of next.
C26_HeaderMerge ==
    (merges.ab # None /\ merges.b # None) =>
        LET res == Val(merges.ab).headers
            base == merges.a.headers
            next == Val(merges.b).headers
        IN /\ lowerCaseKeys(res)
           /\ \A k \in LowerNames :
                 IF valuesOf(next, k) = <<>> THEN valuesAt(res, k) = valuesOf(base, k)
                 ELSE IF k = "set-cookie" \/ isSequence(base, k) \/ isSequence(next, k)
                 THEN valuesAt(res, k) = valuesOf(base, k) \o valuesOf(next, k)
                 ELSE Val(res)[k] = Some(Single(valuesOf(next, k)[1]))

\* {set-cookie: a1, ...} merged with {set-cookie: b1} holds [a1, b1]
C26_Witness ==
    /\ merges.ab # None
    /\ merges.b # None
    /\ valuesAt(merges.a.headers, "set-cookie") = <<"a1">>
    /\ valuesAt(Val(merges.b).headers, "set-cookie") = <<"b1">>
    /\ Val(Val(merges.ab).headers)["set-cookie"] = Some(Multi(<<"a1", "b1">>))

\* The headers of an operand (None: undefined) are scalar: no arrays and no
\* set-cookie key; and no two of its keys differ in letter case only
scalarHeaders(o) ==
    o = None \/ \A name \in HeaderNames :
                   valuesAt(Val(o).headers, name) # <<>>
                   => toLowerCase(name) # "set-cookie" /\ ~Val(Val(Val(o).headers)[name]).array

distinctKeys(o) ==
    o = None \/ \A k \in LowerNames : Len(valuesOf(Val(o).headers, k)) <= 1

headersOf(o) == IF o = None THEN None ELSE Val(o).headers

\* The value of the right-most of the operands a, b, c that defines key k
rightMost(k) ==
    IF valuesOf(headersOf(merges.c), k) # <<>> THEN valuesOf(headersOf(merges.c), k)
    ELSE IF valuesOf(headersOf(merges.b), k) # <<>> THEN valuesOf(headersOf(merges.b), k)
    ELSE valuesOf(merges.a.headers, k)

associative ==
    /\ Val(merges.left).headers = Val(merges.right).headers
    /\ lowerCaseKeys(Val(merges.left).headers)
    /\ \A k \in LowerNames : valuesAt(Val(merges.left).headers, k) = rightMost(k)

bothMerged == merges.left # None /\ merges.right # None

allScalar == scalarHeaders(Some(merges.a)) /\ scalarHeaders(merges.b) /\ scalarHeaders(merges.c)

\* C27 as stated: for operands with scalar headers, merge(merge(a, b), c) and
\* merge(a, merge(b, c)) have the same headers, with lower-case keys, each key
\* holding the value of the right-most operand that defines it.
C27_AsStated == (bothMerged /\ allScalar) => associative

\* C27: the same, for operands none of which has two keys that differ in
\* letter case only.
C27_Associative ==
    (bothMerged /\ allScalar
     /\ distinctKeys(Some(merges.a)) /\ distinctKeys(merges.b) /\ distinctKeys(merges.c))
    => associative

\* Three operands that define the same scalar header under different
\* spellings
C27_Witness ==
    /\ bothMerged
    /\ allScalar
    /\ valuesAt(merges.a.headers, "x-timeout-ms") = <<"a1">>
    /\ distinctKeys(Some(merges.a))
    /\ valuesAt(headersOf(merges.b), "X-Timeout-Ms") = <<"b1">>
    /\ valuesAt(headersOf(merges.c), "x-timeout-ms") = <<"c1">>
    /\ valuesAt(Val(merges.left).headers, "x-timeout-ms") = <<"c1">>

\* C28: a key of next with the value undefined (timeout, headers, query, a
\* single header, a key of query) leaves the value base has for it in the
\* result of mergeRequestOptions(base, next).
C28_UndefinedKept ==
    (merges.ab # None /\ merges.b # None) =>
        LET res == Val(merges.ab)
            base == merges.a
        IN \A key \in Val(merges.b).undefined :
              CASE key = "timeout" -> base.timeout # None => res.timeout = base.timeout
                [] key = "query" -> base.query # None => res.query = base.query
                [] key = "query.a" ->
                     (base.query # None /\ Val(base.query).a # None)
                     => (res.query # None /\ Val(res.query).a = Val(base.query).a)
                [] key = "headers" ->
                     \A k \in LowerNames : valuesAt(res.headers, k) = valuesOf(base.headers, k)
                [] OTHER ->
                     valuesAt(res.headers, toLowerCase(key)) = valuesOf(base.headers, toLowerCase(key))

\* A merge whose second operand has timeout, a header and a key of query
\* undefined, into a base that has values for them
C28_Witness ==
    /\ merges.ab # None
    /\ merges.b # None
    /\ {"timeout", "x-timeout-ms", "query.a"} \subseteq Val(merges.b).undefined
    /\ merges.a.timeout = Some(100)
    /\ valuesAt(merges.a.headers, "x-timeout-ms") = <<"a1">>
    /\ merges.a.query # None
    /\ Val(merges.ab).timeout = Some(100)
    /\ valuesAt(Val(merges.ab).headers, "x-timeout-ms") = <<"a1">>

\* The config a level gives (None: no config), its timeout and its headers
configTimeout(config) == IF config = None THEN None ELSE Val(config).timeout
configHeaders(config) == IF config = None THEN None ELSE Val(config).headers

obsClientConfig == clients[bounds[obs.bound].client].input.config
obsBindConfig == bounds[obs.bound].given

\* C29: while the executor's call is in flight, its options have the timeout
\* of the call's options if set, else that of the config of bind(ctx, config), else
\* that of the client-construction config; under every header key (compared
\* in lower case) they hold, for set-cookie, the values of the three levels
\* from client config to call, and for a scalar header the value of the most
\* specific level that defines it.
C29_Precedence ==
    obs.pc = "inflight" =>
        LET call == obs.options
            levels(k) == <<valuesOf(call.headers, k),
                           valuesOf(configHeaders(obsBindConfig), k),
                           valuesOf(configHeaders(obsClientConfig), k)>>
            first(seq) == IF seq[1] # <<>> THEN seq[1] ELSE IF seq[2] # <<>> THEN seq[2] ELSE seq[3]
        IN /\ obs.sent.timeout =
                 OrElse(call.timeout,
                        OrElse(configTimeout(obsBindConfig), configTimeout(obsClientConfig)))
           /\ \A k \in LowerNames :
                 valuesOf(obs.sent.headers, k) =
                     IF k = "set-cookie" THEN levels(k)[3] \o levels(k)[2] \o levels(k)[1]
                     ELSE first(levels(k))

\* A request whose timeout comes from the bind config over the client config,
\* with a header defined at the three levels and set-cookie at two
C29_Witness ==
    /\ obs.pc = "inflight"
    /\ obsClientConfig # None /\ configTimeout(obsClientConfig) = Some(900)
    /\ obsBindConfig # None /\ configTimeout(obsBindConfig) = Some(400)
    /\ obs.options.timeout = None
    /\ obs.sent.timeout = Some(400)
    /\ valuesOf(obs.sent.headers, "authorization") = <<"b1">>
    /\ valuesOf(obs.sent.headers, "set-cookie") = <<"c1", "b1">>

\* C30: when a request through a client of withRetry with a budget
\* succeeds, whatever its method and its resolved schedule, the tokens of the
\* budget become min(maxTokens, tokens + refillOnSuccess).
C30_RefillOnSuccess ==
    [][(/\ obs.pc # "done"
        /\ obs'.pc = "done"
        /\ obs'.settled = "resolved"
        /\ obsBudget # 0)
       => budgets'[obsBudget].tokens =
              Min(budgets[obsBudget].config.maxTokens,
                  budgets[obsBudget].tokens + budgets[obsBudget].config.refillOnSuccess)]_vars

-----------------------------------------------------------------------------
(* Properties of the retry decision, the delays and the budget *)

\* The last failure of the observed request's attempts is a RequestError
\* raised inside a retry loop
obsFailedInLoop == obs.looping /\ obs.lastInner.kind = "RequestError"

\* The observed request was rejected with its last failure and made no call
\* after it
obsPropagatedLast ==
    /\ obs.pc = "done"
    /\ obs.settled = "rejected"
    /\ obs.error = obs.lastInner
    /\ obs.calls = obs.lastInner.seq

\* C31: without a custom shouldRetry, a failed attempt with schedule entries
\* left is retried if and only if its RequestError has no status, status 429
\* or a status >= 500, and with another status it is propagated with no
\* further attempt (after one attempt when it was the first) and shouldRetry
\* is never consulted; with a custom shouldRetry the predicate is asked for
\* every failed attempt and its answer alone decides, whatever the status.
C31_RetryEligibility ==
    obsFailedInLoop =>
        LET e == obs.lastInner
            left == e.seq <= Len(obs.schedule)
            retried == obs.grants = e.seq
        IN IF policy.shouldRetry # "custom"
           THEN /\ obs.shouldRetryCalls = 0
                /\ IF e.status = None \/ e.status = Some(429)
                      \/ (e.status # None /\ Val(e.status) >= 500)
                   THEN left => retried
                   ELSE ~retried /\ obsPropagatedLast
           ELSE /\ obs.shouldRetryCalls = e.seq
                /\ IF obs.allRetryable THEN left => retried
                   ELSE /\ ~retried
                        /\ obs.pc = "done" /\ obs.settled = "rejected"
                        /\ obs.calls = e.seq
                        /\ obs.error = e \/ obs.error.origin = "shouldRetry"

\* A 429 was retried and the 400 that followed was propagated, under the
\* default rule
C31_Witness ==
    /\ policy.shouldRetry # "custom"
    /\ obsFailedInLoop
    /\ obs.lastInner.status = Some(400)
    /\ obs.lastInner.seq = 2
    /\ obs.grants = 1
    /\ obsPropagatedLast

\* The observed request's last failed attempt was granted a retry that is
\* pending: its delay runs, or the attempt after it is in flight
obsRetryPending ==
    /\ obsFailedInLoop
    /\ obs.pc \in {"sleeping", "inflight"}
    /\ obs.grants = obs.lastInner.seq

\* The seconds a Retry-After header stands for at time t, in ms (None: the
\* header is absent or not parsable)
headerDelayMs(header, t) ==
    IF header = None THEN None
    ELSE CASE Val(header).kind = "seconds" ->
                Some(IF Val(header).n < 0 THEN 0 ELSE 1000 * Val(header).n)
           [] Val(header).kind = "date" ->
                Some(IF Val(header).n <= t THEN 0 ELSE Val(header).n - t)
           [] OTHER -> None

\* C32: the delay before the attempt that follows a retried failure is that
\* of the Retry-After header of the failure (non-negative seconds) when its
\* status is 429 or 503 and the header is parsable, and otherwise that of
\* the schedule entry of the attempt; exactly with jitter 0, and within the
\* jitter ratio of it with the default jitter.
C32_RetryAfter ==
    obsRetryPending =>
        LET e == obs.lastInner
            header == headerDelayMs(e.retryAfter, obs.failAt)
            base == IF e.status \in {Some(429), Some(503)} /\ header # None
                    THEN Val(header)
                    ELSE 1000 * obs.schedule[e.seq]
        IN IF policy.jitter = Some(0) THEN obs.delayMs = base
           ELSE /\ 10 * obs.delayMs >= 8 * base
                /\ 10 * obs.delayMs <= 12 * base

\* A 429 with Retry-After: 1 on the second attempt, whose schedule entry is
\* 0, is followed by a delay of one second
C32_Witness ==
    /\ obsRetryPending
    /\ policy.jitter = Some(0)
    /\ obs.pc = "sleeping"
    /\ obs.lastInner.seq = 2
    /\ obs.lastInner.status = Some(429)
    /\ obs.lastInner.retryAfter = Some(Seconds(1))
    /\ obs.schedule[2] = 0
    /\ obs.delayMs = 1000

\* The retries value a request is governed by: that of its options when
\* present, else the policy's; and whether it asks for no retry
governing(req) == IF req.options.retries.kind # "undefined" THEN req.options.retries ELSE policy.retries

noRetries(retries) ==
    \/ retries.kind = "undefined"
    \/ retries.kind = "number" /\ retries.count <= 0
    \/ retries.kind = "array" /\ retries.delays = <<>>

\* Every started request runs under the schedule of its own governing value:
\* no loop when it asks for no retry, the array itself, or as many entries as
\* the number says
C33_Governed ==
    \A r \in 1..MaxReq :
        (reqs[r].pc \notin {"new", "done"} \/ (r = 1 /\ obs.pc = "done")) =>
            LET retries == governing(reqs[r])
            IN IF noRetries(retries) THEN ~reqs[r].looping /\ reqs[r].schedule = <<>>
               ELSE /\ reqs[r].looping
                    /\ retries.kind = "array" => reqs[r].schedule = retries.delays
                    /\ retries.kind = "number" => Len(reqs[r].schedule) = retries.count

\* A request that asks for no retry invokes the inner request once, rejects
\* with the error of that invocation, and a step of it leaves the budgets as
\* they are
C33_SingleAttempt ==
    (obs.pc # "new" /\ noRetries(governing(obs))) =>
        /\ obs.calls = 1
        /\ obs.grants = 0
        /\ obs.shouldRetryCalls = 0
        /\ (obs.pc = "done" /\ obs.settled = "rejected") => (obs.error = obs.lastInner /\ obs.error.seq = 1)

C33_BudgetUntouched ==
    (obs.pc # "done" /\ reqs'[1] # reqs[1] /\ noRetries(governing(reqs'[1]))) => budgets' = budgets

C34_UnknownThrow ==
    [][(/\ obs.pc = "inflight"
        /\ obs.looping
        /\ reqs'[1].lastInner.kind = "Error"
        /\ reqs'[1].lastInner # obs.lastInner)
       => /\ reqs'[1].pc = "done"
          /\ reqs'[1].settled = "rejected"
          /\ reqs'[1].error = reqs'[1].lastInner
          /\ reqs'[1].error.seq = obs.execCalls
          /\ reqs'[1].calls = obs.calls
          /\ reqs'[1].execCalls = obs.execCalls
          /\ reqs'[1].shouldRetryCalls = obs.shouldRetryCalls
          /\ reqs'[1].grants = obs.grants
          /\ budgets' = budgets]_vars

\* The second attempt of a request under a custom shouldRetry and a budget
\* threw an Error, which the request was rejected with
C34_Witness ==
    /\ obs.pc = "done"
    /\ obs.looping
    /\ policy.shouldRetry = "custom"
    /\ obsBudget # 0
    /\ obs.error.kind = "Error"
    /\ obs.error.origin = "inner"
    /\ obs.error.seq = 2
    /\ obs.calls = 2
    /\ obs.shouldRetryCalls = 1

\* The observed request is the only request made so far
obsAlone == \A r \in 2..MaxReq : reqs[r].pc = "new"

\* C35: with refillOnSuccess = 0, once the only request made through a client
\* has settled, the tokens of the client's budget are maxTokens less
\* costPerRetry for each retry attempt the request started (each call of the
\* inner request after the first).
C35_NoNetConsumption ==
    (/\ obs.pc = "done"
     /\ obs.looping
     /\ obsAlone
     /\ obsBudget # 0
     /\ budgets[obsBudget].config.refillOnSuccess = 0)
    => budgets[obsBudget].tokens =
           budgets[obsBudget].config.maxTokens
             - budgets[obsBudget].config.costPerRetry * (obs.calls - 1)

\* C36: once the signal of a request in a retry loop is aborted, the loop
\* invokes the inner request no more, whatever the delay before the next
\* attempt (0 ms included).
C36_NoAttemptAfterAbort ==
    [][(obs.looping /\ obs.hasSignal /\ obs.aborted)
       => reqs'[1].calls = obs.calls]_vars

\* withTimeout sits inside the retry loop of the observed request, with
\* deadline propagation enabled (propagateDeadline true or not given)
obsTimeoutInLoop ==
    /\ stack = <<"timeout", "retry">>
    /\ topts.propagateDeadline \in {"absent", "true"}

\* The deadline the bound client b resolves
deadlineOf(b) ==
    CASE topts.getDeadline.kind = "number" -> Some(topts.getDeadline.value)
      [] topts.getDeadline.kind = "throws" -> None
      [] OTHER -> bounds[b].ctx.deadline

\* Every attempt of the loop invokes withTimeout, and an invocation at or
\* after the deadline throws an AbortError that ends the request at once
C37_ExpiredEndsRequest ==
    (obsTimeoutInLoop /\ obs.looping /\ obs.tCalls >= 1) =>
        /\ obs.tCalls = obs.calls
        /\ (deadlineOf(obs.bound) # None /\ Val(deadlineOf(obs.bound)) <= obs.tLast.at)
            => /\ obs.tLast.kind = "AbortError"
               /\ obs.tLast.inner = 0
               /\ obs.pc = "done"
               /\ obs.settled = "rejected"
               /\ obs.error.kind = "AbortError"
               /\ obs.error.origin = "deadline"
               /\ obs.error.seq = obs.execCalls

\* The executor is called only before the deadline
C37_NoCallPastDeadline ==
    (/\ obsTimeoutInLoop
     /\ reqs'[1].execCalls > obs.execCalls
     /\ deadlineOf(reqs'[1].bound) # None)
    => now' < Val(deadlineOf(reqs'[1].bound))

C38_PositiveTimeout ==
    (obsPassedInward /\ obsPropagated # None /\ Val(obsPropagated) - obsT.at > 0)
        => /\ obsT.passed.timeout # None
           /\ Val(obsT.passed.timeout) > 0

\* The retries an HttpConfig supplies to the observed request: those of the
\* config given to bind, else those of the client's construction config
obsConfigRetries ==
    LET given == bounds[obs.bound].given
        input == clients[bounds[obs.bound].client].input.config
    IN IF given # None /\ Val(given).retries.kind # "undefined" THEN Val(given).retries
       ELSE IF input # None THEN Val(input).retries
       ELSE RetriesUndefined

\* C39: a request without options.retries, made through a withRetry client
\* whose policy sets no retries and whose HttpConfig supplies a schedule of at
\* least one retry, is attempted again after a first attempt that failed with
\* a retryable error.
C39_ConfigRetries ==
    (/\ obs.pc = "done"
     /\ obs.options.retries.kind = "undefined"
     /\ policy.retries.kind = "undefined"
     /\ Len(resolveRetriesScheduleSeconds(policy, obsConfigRetries).schedule) >= 1
     /\ obs.settled = "rejected"
     /\ obs.lastInner.kind = "RequestError"
     /\ obs.lastInner.status = Some(503))
    => obs.calls >= 2

\* C40: mergeRequestOptions(base, next) leaves base and next, whatever kind
\* of object they are, with the keys, values and headers map they had before
\* the call, and the headers map of the object it returns is a new one.
C40_NoMutation ==
    merges.result # 0 =>
        /\ merges.heap[1].value = merges.a
        /\ merges.heap[1].headersRef = (IF merges.a.headers = None THEN 0 ELSE 1)
        /\ merges.b # None =>
              /\ merges.heap[2].value = Val(merges.b)
              /\ merges.heap[2].headersRef = (IF Val(merges.b).headers = None THEN 0 ELSE 2)
        /\ merges.heap[merges.result].headersRef \notin {0, 1, 2}

====
